---- MODULE Spec2Model ----
(***************************************************************************)
(* Sandboxed code execution engine of the Math API:                        *)
(*   src/src/api/v1/answers/helpers.py  policy catalog, validator,         *)
(*                                      SAFE_NAMESPACE, safe_import        *)
(*   src/src/api/v1/answers/tools.py    safe_execute_code_tool             *)
(* Candidate sources are syntax trees; the validator, the import gate and  *)
(* the evaluation of the candidate are computed over those trees.          *)
(***************************************************************************)
EXTENDS Integers, Sequences, FiniteSets, TLC

(***************************************************************************)
(* Bounds of the model.                                                    *)
(***************************************************************************)
\* number of invocations of safe_execute_code_tool in one behaviour
NumInvocations == 2
\* threads of the executor that asyncio.to_thread submits to
PoolSize == 1
\* call depth at which the interpreter raises RecursionError
MaxCallDepth == 3

Invocations == 1..NumInvocations

(***************************************************************************)
(* Python objects.  One record shape for every value:                      *)
(*   t     the type tag                                                    *)
(*   n     an integer payload (int/float value, owning invocation)         *)
(*   s     a string payload (function, module or dict name)                *)
(*   node  the FunctionDef of a function object                            *)
(***************************************************************************)
NoNode == [kind |-> "None", name |-> "", aux |-> "", val |-> 0, kids |-> <<>>]
NoneV == [t |-> "None", n |-> 0, s |-> "", node |-> NoNode]
IntV(n) == [t |-> "int", n |-> n, s |-> "", node |-> NoNode]
FloatV(n) == [t |-> "float", n |-> n, s |-> "", node |-> NoNode]
StrV(s) == [t |-> "str", n |-> 0, s |-> s, node |-> NoNode]
TupleV == [t |-> "tuple", n |-> 0, s |-> "", node |-> NoNode]
RangeV(n) == [t |-> "range", n |-> n, s |-> "", node |-> NoNode]
CountV == [t |-> "count", n |-> 0, s |-> "", node |-> NoNode]
CoroutineV == [t |-> "coroutine", n |-> 0, s |-> "", node |-> NoNode]
BuiltinV(s) == [t |-> "builtin", n |-> 0, s |-> s, node |-> NoNode]
ModuleV(m) == [t |-> "module", n |-> 0, s |-> m, node |-> NoNode]
\* a reference to a dict object of the heap: kind s, owning invocation n
DictV(s, n) == [t |-> "dict", n |-> n, s |-> s, node |-> NoNode]
\* a function object: its __globals__ is the dict object at address [k |-> s, i |-> n]
FuncV(node, g) == [t |-> "func", n |-> g.i, s |-> g.k, node |-> node]

\* heap addresses of dict objects and of module objects
Addr(k, i) == [k |-> k, i |-> i]
AddrOf(v) == Addr(v.s, v.n)
ModAddr(m) == Addr(m, 0)
TemplateAddr == Addr("SAFE_NAMESPACE", 0)
TemplateBuiltinsAddr == Addr("builtins", 0)
GlobalsAddr(i) == Addr("globals", i)
BuiltinsAddr(i) == Addr("builtins", i)
LocalsAddr(i) == Addr("locals", i)

\* dict operations
EmptyDict == [x \in {} |-> NoneV]
Has(d, k) == k \in DOMAIN d
Put(d, k, v) == [x \in (DOMAIN d) \cup {k} |-> IF x = k THEN v ELSE d[x]]
Update(d, e) == [x \in (DOMAIN d) \cup (DOMAIN e) |-> IF x \in DOMAIN e THEN e[x] ELSE d[x]]

(***************************************************************************)
(* Policy catalog (helpers.py).                                            *)
(***************************************************************************)
ALLOWED_PYTHON_MODULES ==
    {"math", "cmath", "fractions", "decimal", "itertools", "functools",
     "operator", "statistics", "random"}

DANGEROUS_ATTRIBUTES ==
    {"__class__", "__bases__", "__subclasses__", "__globals__", "__code__",
     "__builtins__", "__dict__", "__mro__", "__import__", "func_globals",
     "func_code", "gi_frame", "gi_code", "cr_frame", "cr_code"}

MAX_FUNCTION_DEPTH == 2

\* names bound in SAFE_NAMESPACE["__builtins__"]
BuiltinNames ==
    {"len", "range", "enumerate", "zip", "map", "filter", "sum", "abs", "min",
     "max", "pow", "round", "sorted", "reversed", "all", "any", "int", "float",
     "complex", "str", "list", "tuple", "dict", "set", "frozenset", "bool",
     "divmod", "isinstance"}

(***************************************************************************)
(* Syntax trees.  A node has a kind (the ast class), a name (identifier,   *)
(* attribute, module), aux (asname, operator), val (constant) and kids     *)
(* (the child nodes, in the order generic_visit meets them).               *)
(***************************************************************************)
N(kind, name, aux, val, kids) ==
    [kind |-> kind, name |-> name, aux |-> aux, val |-> val, kids |-> kids]

Module(body) == N("Module", "", "", 0, body)
Arguments(params) == N("arguments", "", "", 0, [k \in 1..Len(params) |-> N("arg", params[k], "", 0, <<>>)])
FunctionDef(name, params, body) == N("FunctionDef", name, "", 0, <<Arguments(params)>> \o body)
AsyncFunctionDef(name, params, body) == N("AsyncFunctionDef", name, "", 0, <<Arguments(params)>> \o body)
Lambda(params, e) == N("Lambda", "", "", 0, <<Arguments(params), e>>)
Return(e) == N("Return", "", "", 0, <<e>>)
Assign(target, e) == N("Assign", "", "", 0, <<target, e>>)
Global(name) == N("Global", name, "", 0, <<>>)
ExprStmt(e) == N("Expr", "", "", 0, <<e>>)
Pass == N("Pass", "", "", 0, <<>>)
While(test, body) == N("While", "", "", 0, <<test>> \o body)
For(var, iter, body) == N("For", "", "", 0, <<N("Name", var, "Store", 0, <<>>), iter>> \o body)
Alias(name, asname) == N("alias", name, asname, 0, <<>>)
Import(name, asname) == N("Import", "", "", 0, <<Alias(name, asname)>>)
ImportFrom(module, name) == N("ImportFrom", module, "", 0, <<Alias(name, "")>>)
Name(id) == N("Name", id, "Load", 0, <<>>)
NameStore(id) == N("Name", id, "Store", 0, <<>>)
Const(v) == N("Constant", "int", "", v, <<>>)
ConstNone == N("Constant", "None", "", 0, <<>>)
ConstTuple == N("Constant", "tuple", "", 0, <<>>)
BinOp(op, l, r) == N("BinOp", "", op, 0, <<l, r>>)
Attribute(e, attr) == N("Attribute", attr, "Load", 0, <<e>>)
AttributeStore(e, attr) == N("Attribute", attr, "Store", 0, <<e>>)
SubscriptStore(e, key) == N("Subscript", key, "Store", 0, <<e>>)
Call(f, args) == N("Call", "", "", 0, <<f>> \o args)
\* arguments with default values: the arg nodes, then the default expressions
ArgumentsDefaults(params, defaults) ==
    N("arguments", "", "", 0, [k \in 1..Len(params) |-> N("arg", params[k], "", 0, <<>>)] \o defaults)
\* a def with default values and decorators; generic_visit meets args, body
\* and decorator_list in this order, val counts the decorators
FunctionDefFull(name, params, defaults, body, decorators) ==
    N("FunctionDef", name, "", Len(decorators),
      <<ArgumentsDefaults(params, defaults)>> \o body \o decorators)
AttributeDel(e, attr) == N("Attribute", attr, "Del", 0, <<e>>)
Delete(target) == N("Delete", "", "", 0, <<target>>)
If(test, body, orelse) == N("If", "", "", Len(orelse), <<test>> \o body \o orelse)
ClassDef(name, bases, body) == N("ClassDef", name, "", 0, bases \o body)
Comprehension(var, iter) == N("comprehension", "", "", 0, <<NameStore(var), iter>>)
ListComp(elt, var, iter) == N("ListComp", "", "", 0, <<elt, Comprehension(var, iter)>>)
SetComp(elt, var, iter) == N("SetComp", "", "", 0, <<elt, Comprehension(var, iter)>>)
GeneratorExp(elt, var, iter) == N("GeneratorExp", "", "", 0, <<elt, Comprehension(var, iter)>>)
DictComp(key, value, var, iter) ==
    N("DictComp", "", "", 0, <<key, value, Comprehension(var, iter)>>)
ConstStr(s) == N("Constant", "str", s, 0, <<>>)

(***************************************************************************)
(* Candidate sources.  ast.parse is modelled by the source's recorded      *)
(* parse outcome: "ok" with its tree, "SyntaxError" for malformed text, or *)
(* another exception the parser raises ("RecursionError" for an expression *)
(* nested too deeply for the AST construction).                            *)
(***************************************************************************)
Source(text, parse, tree) == [text |-> text, parse |-> parse, tree |-> tree]

\* ast.parse(code_string)
Parse(src) == src.parse

(***************************************************************************)
(* CodeSecurityValidator (helpers.py:56-155).  The visitor state holds     *)
(* function_depth, function_names, current_function and the violation     *)
(* raised ("" while none was raised).                                      *)
(***************************************************************************)
NoFunction == ""
NoViolation == ""

\* CodeSecurityValidator.__init__
ValidatorInit ==
    [function_depth |-> 0, function_names |-> {}, current_function |-> NoFunction,
     violation |-> NoViolation]

Raise(st, kind) == [st EXCEPT !.violation = kind]

RECURSIVE Visit(_, _)
RECURSIVE VisitKids(_, _, _)

\* ast.NodeVisitor.generic_visit: visits the children in order; an exception
\* raised by a child ends the traversal
VisitKids(kids, k, st) ==
    IF k > Len(kids) \/ st.violation # NoViolation THEN st
    ELSE VisitKids(kids, k + 1, Visit(kids[k], st))

generic_visit(node, st) == VisitKids(node.kids, 1, st)

\* visit_Attribute checking only the attributes that are read
visit_Attribute_LoadOnly(node, st) ==
    IF node.aux = "Load" /\ node.name \in DANGEROUS_ATTRIBUTES THEN Raise(st, "DangerousAttribute")
    ELSE generic_visit(node, st)

visit_Attribute(node, st) ==
    IF node.name \in DANGEROUS_ATTRIBUTES THEN Raise(st, "DangerousAttribute")
    ELSE generic_visit(node, st)

\* visit_While rejecting only the while loops inside a function
visit_While_InFunction(node, st) ==
    IF st.function_depth = 0 THEN generic_visit(node, st) ELSE Raise(st, "WhileLoopForbidden")

visit_While(node, st) == Raise(st, "WhileLoopForbidden")

visit_FunctionDef(node, st) ==
    LET entered == [st EXCEPT !.function_depth = st.function_depth + 1]
    IN  IF entered.function_depth > MAX_FUNCTION_DEPTH
        THEN Raise(entered, "NestingDepthExceeded")
        ELSE LET inside == [entered EXCEPT !.current_function = node.name,
                                           !.function_names = @ \cup {node.name}]
                 after == generic_visit(node, inside)
             IN  IF after.violation # NoViolation THEN after
                 ELSE [after EXCEPT !.current_function = st.current_function,
                                    !.function_depth = after.function_depth - 1]

visit_AsyncFunctionDef(node, st) == visit_FunctionDef(node, st)

\* visit_Call rejecting a call of any function name met so far
visit_Call_KnownNames(node, st) ==
    IF /\ node.kids[1].kind = "Name"
       /\ node.kids[1].name \in st.function_names
    THEN Raise(st, "RecursionDetected")
    ELSE generic_visit(node, st)

visit_Call(node, st) ==
    IF /\ node.kids[1].kind = "Name"
       /\ st.current_function # NoFunction
       /\ node.kids[1].name = st.current_function
    THEN Raise(st, "RecursionDetected")
    ELSE generic_visit(node, st)

visit_Lambda(node, st) ==
    LET entered == [st EXCEPT !.function_depth = st.function_depth + 1]
    IN  IF entered.function_depth > MAX_FUNCTION_DEPTH
        THEN Raise(entered, "NestingDepthExceeded")
        ELSE LET after == generic_visit(node, entered)
             IN  IF after.violation # NoViolation THEN after
                 ELSE [after EXCEPT !.function_depth = after.function_depth - 1]

\* ast.NodeVisitor.visit: dispatch on the node class
Visit(node, st) ==
    CASE node.kind = "Attribute" -> visit_Attribute(node, st)
      [] node.kind = "While" -> visit_While(node, st)
      [] node.kind = "FunctionDef" -> visit_FunctionDef(node, st)
      [] node.kind = "AsyncFunctionDef" -> visit_AsyncFunctionDef(node, st)
      [] node.kind = "Call" -> visit_Call(node, st)
      [] node.kind = "Lambda" -> visit_Lambda(node, st)
      [] OTHER -> generic_visit(node, st)

\* the node without its descendants: what the visitor of the node looks at
\* before it descends (a call keeps its callee: the name, or a leaf for
\* another expression)
Cut(node) ==
    [node EXCEPT !.kids =
        IF node.kind # "Call" THEN <<>>
        ELSE IF node.kids[1].kind = "Name" THEN <<[node.kids[1] EXCEPT !.kids = <<>>]>>
        ELSE <<Pass>>]

\* the visitor of the node raises before generic_visit descends
RaisesAt(node, st) == Visit(Cut(node), st).violation # NoViolation

\* the fields while generic_visit runs inside the visitor of the node
\* (helpers.py:107-118, 135-142)
Entered(node, st) ==
    CASE node.kind \in {"FunctionDef", "AsyncFunctionDef"} ->
            [st EXCEPT !.function_depth = @ + 1, !.current_function = node.name,
                       !.function_names = @ \cup {node.name}]
      [] node.kind = "Lambda" -> [st EXCEPT !.function_depth = @ + 1]
      [] OTHER -> st

RECURSIVE Trail(_, _, _)
RECURSIVE TrailKids(_, _, _, _)

\* the visits of the traversal of node started with the fields st: each
\* node met, with the fields at the moment its visitor is called and its
\* lexical position lex = <<definitions around it, innermost named function,
\* the same two for the scope that holds the innermost definition>>
Trail(node, st, lex) ==
    {[kind |-> node.kind, name |-> node.name,
      function_depth |-> st.function_depth, current_function |-> st.current_function,
      enclosing |-> lex[1], innermost |-> lex[2]]}
      \cup IF RaisesAt(node, st) THEN {} ELSE TrailKids(node, 1, Entered(node, st), lex)

\* the visits of the children k.. of node; a child that raised ends them
TrailKids(node, k, st, lex) ==
    IF k > Len(node.kids) \/ st.violation # NoViolation THEN {}
    ELSE LET kid == node.kids[k]
             inner == CASE node.kind \in {"FunctionDef", "AsyncFunctionDef"} ->
                              IF k > Len(node.kids) - node.val THEN lex
                              ELSE <<lex[1] + 1, node.name, lex[1], lex[2]>>
                        [] node.kind = "Lambda" -> <<lex[1] + 1, lex[2], lex[1], lex[2]>>
                        [] node.kind = "arguments" ->
                              IF kid.kind = "arg" THEN lex
                              ELSE <<lex[3], lex[4], lex[3], lex[4]>>
                        [] OTHER -> lex
         IN  Trail(kid, st, inner) \cup TrailKids(node, k + 1, Visit(kid, st), lex)

\* CodeSecurityValidator.validate
Validate(tree) == Visit(tree, ValidatorInit)

\* validate_code_security: the exception it raises ("" when it returns the tree)
validate_code_security(src) ==
    IF Parse(src) # "ok" THEN Parse(src)
    ELSE IF Validate(src.tree).violation # NoViolation THEN "SecurityViolation"
    ELSE ""

(***************************************************************************)
(* Import gate (tools.py:48-59): a walk over every node of the tree.       *)
(***************************************************************************)
RECURSIVE Walk(_)
\* ast.walk: the set of all nodes of the tree
Walk(node) ==
    {node} \cup UNION {Walk(node.kids[k]) : k \in 1..Len(node.kids)}

\* the import gate looking only at the top-level statements
ImportGateRejects_TopLevel(tree) ==
    \E node \in {tree.kids[k] : k \in 1..Len(tree.kids)} :
        \/ /\ node.kind = "Import"
           /\ \E k \in 1..Len(node.kids) : node.kids[k].name \notin ALLOWED_PYTHON_MODULES
        \/ /\ node.kind = "ImportFrom"
           /\ node.name \notin ALLOWED_PYTHON_MODULES

ImportGateRejects(tree) ==
    \E node \in Walk(tree) :
        \/ /\ node.kind = "Import"
           /\ \E k \in 1..Len(node.kids) : node.kids[k].name \notin ALLOWED_PYTHON_MODULES
        \/ /\ node.kind = "ImportFrom"
           /\ node.name \notin ALLOWED_PYTHON_MODULES

(***************************************************************************)
(* compile(tree, "<string>", "exec") (tools.py:64): a tree that parsed can *)
(* still fail to compile, e.g. a return statement outside a function.      *)
(***************************************************************************)
RECURSIVE ReturnOutsideFunction(_)
ReturnOutsideFunction(node) ==
    \/ node.kind = "Return"
    \/ /\ node.kind \notin {"FunctionDef", "AsyncFunctionDef", "Lambda"}
       /\ \E k \in 1..Len(node.kids) : ReturnOutsideFunction(node.kids[k])

CompileFails(tree) == ReturnOutsideFunction(tree)

(***************************************************************************)
(* The process-wide objects of helpers.py: the module objects bound in     *)
(* AVAILABLE_PYTHON_MODULES and the SAFE_NAMESPACE template with its       *)
(* builtins dict.  A module object is the dict of its attributes; the      *)
(* standard library modules keep the modules they import themselves as     *)
(* attributes (random.py: "import os as _os"; statistics.py: "import sys").*)
(***************************************************************************)
HostModules == {"os", "sys"}

ModuleAttrs(m) ==
    CASE m = "math" -> [x \in {"sqrt"} |-> BuiltinV("sqrt")]
      [] m = "itertools" -> [x \in {"count"} |-> BuiltinV("count")]
      [] m = "random" -> [x \in {"_os"} |-> ModuleV("os")]
      [] m = "statistics" -> [x \in {"sys"} |-> ModuleV("sys")]
      [] OTHER -> EmptyDict

\* AVAILABLE_PYTHON_MODULES without the entry for random
AVAILABLE_PYTHON_MODULES_NoRandom ==
    [m \in ALLOWED_PYTHON_MODULES \ {"random"} |-> ModuleV(m)]

\* AVAILABLE_PYTHON_MODULES (helpers.py:28-38)
AVAILABLE_PYTHON_MODULES == [m \in ALLOWED_PYTHON_MODULES |-> ModuleV(m)]

\* SAFE_NAMESPACE["__builtins__"] (helpers.py:166-196)
SAFE_BUILTINS ==
    [x \in BuiltinNames \cup {"__import__"} |->
        IF x = "__import__" THEN BuiltinV("safe_import") ELSE BuiltinV(x)]

\* SAFE_NAMESPACE after SAFE_NAMESPACE.update(AVAILABLE_PYTHON_MODULES)
SAFE_NAMESPACE ==
    Update([x \in {"__builtins__"} |-> DictV("builtins", 0)], AVAILABLE_PYTHON_MODULES)

\* the modules the host's __import__ loaded for candidate code
HostImportsAddr == Addr("sys.modules", 0)

\* the heap when the process has imported helpers.py
InitHeap ==
    [a \in {TemplateAddr, TemplateBuiltinsAddr, HostImportsAddr}
            \cup {ModAddr(m) : m \in ALLOWED_PYTHON_MODULES \cup HostModules} |->
        IF a = TemplateAddr THEN SAFE_NAMESPACE
        ELSE IF a = TemplateBuiltinsAddr THEN SAFE_BUILTINS
        ELSE IF a = HostImportsAddr THEN EmptyDict
        ELSE ModuleAttrs(a.k)]

\* heap with dict object a replaced by d (allocating a when it is new)
HeapPut(h, a, d) == [x \in (DOMAIN h) \cup {a} |-> IF x = a THEN d ELSE h[x]]

(***************************************************************************)
(* Evaluation of candidate code.  An evaluation result is                  *)
(*   st   "ok" | "return" | "raise" | "hang" (never finishes)              *)
(*   val  the value (ok, return), exc the exception class (raise)          *)
(*   h    the heap after the evaluation, loc the frame's local variables   *)
(* The context ctx holds the address g of the globals dict the running     *)
(* code resolves names in (the function's __globals__), the names the      *)
(* frame declares global, and the call depth.                              *)
(***************************************************************************)
Res(st, val, exc, h, loc) == [st |-> st, val |-> val, exc |-> exc, h |-> h, loc |-> loc]
Ok(val, h, loc) == Res("ok", val, "", h, loc)
Raised(exc, h, loc) == Res("raise", NoneV, exc, h, loc)

Ctx(g, globs, depth) == [g |-> g, globs |-> globs, depth |-> depth]

\* the builtins dict that code with globals g resolves builtin names in
BuiltinsOf(h, g) == h[AddrOf(h[g]["__builtins__"])]

\* LOAD_NAME / LOAD_GLOBAL: frame locals, then the function's globals, then builtins
LoadName(id, h, loc, ctx) ==
    IF Has(loc, id) /\ id \notin ctx.globs THEN Ok(loc[id], h, loc)
    ELSE IF Has(h[ctx.g], id) THEN Ok(h[ctx.g][id], h, loc)
    ELSE IF Has(BuiltinsOf(h, ctx.g), id) THEN Ok(BuiltinsOf(h, ctx.g)[id], h, loc)
    ELSE Raised("NameError", h, loc)

\* STORE_NAME / STORE_FAST / STORE_GLOBAL
StoreName(id, v, h, loc, ctx) ==
    IF id \in ctx.globs
    THEN Ok(NoneV, HeapPut(h, ctx.g, Put(h[ctx.g], id, v)), loc)
    ELSE Ok(NoneV, h, Put(loc, id, v))

\* integer square root; floats are represented by their integer part
Isqrt(n) == CHOOSE r \in 0..n : r * r <= n /\ (r + 1) * (r + 1) > n

\* the host's __import__: the module is loaded and recorded in sys.modules
RealImport(name, h, loc) ==
    Ok(ModuleV(name),
       HeapPut(IF ModAddr(name) \in DOMAIN h THEN h ELSE HeapPut(h, ModAddr(name), EmptyDict),
               HostImportsAddr, Put(h[HostImportsAddr], name, ModuleV(name))),
       loc)

\* safe_import (helpers.py:41-49)
safe_import(name, h, loc) ==
    IF name \notin ALLOWED_PYTHON_MODULES THEN Raised("ImportError", h, loc)
    ELSE IF Has(AVAILABLE_PYTHON_MODULES, name) THEN Ok(AVAILABLE_PYTHON_MODULES[name], h, loc)
    ELSE RealImport(name, h, loc)

\* a call of a built-in callable f with the argument values args
CallBuiltin(f, args, h, loc) ==
    CASE f.s = "safe_import" ->
            IF Len(args) = 0 THEN Raised("TypeError", h, loc)
            ELSE IF args[1].t = "str" THEN safe_import(args[1].s, h, loc)
            \* a name that is not a string is in no set of module names
            ELSE Raised("ImportError", h, loc)
      [] f.s = "range" ->
            IF Len(args) = 1 /\ args[1].t = "int" THEN Ok(RangeV(args[1].n), h, loc)
            ELSE Raised("TypeError", h, loc)
      [] f.s = "count" -> Ok(CountV, h, loc)
      [] f.s = "sqrt" ->
            IF Len(args) # 1 \/ args[1].t \notin {"int", "float"} THEN Raised("TypeError", h, loc)
            ELSE IF args[1].n < 0 THEN Raised("ValueError", h, loc)
            ELSE Ok(FloatV(Isqrt(args[1].n)), h, loc)
      [] f.s = "abs" ->
            IF Len(args) = 1 /\ args[1].t \in {"int", "float"}
            THEN Ok([args[1] EXCEPT !.n = IF @ < 0 THEN -@ ELSE @], h, loc)
            ELSE Raised("TypeError", h, loc)
      [] OTHER -> Raised("NotModelled", h, loc)

\* names a function body (or the module body) declares global
GlobalNames(body) == {body[k].name : k \in {j \in 1..Len(body) : body[j].kind = "Global"}}

IsArg(n) == n.kind = "arg"
IsDefault(n) == n.kind # "arg"
\* the decorator expressions and the default value expressions of a def
DecoratorsOf(fnode) ==
    SubSeq(fnode.kids, Len(fnode.kids) - fnode.val + 1, Len(fnode.kids))
DefaultsOf(fnode) == SelectSeq(fnode.kids[1].kids, IsDefault)
ParamNames(fnode) ==
    [k \in 1..Len(SelectSeq(fnode.kids[1].kids, IsArg)) |-> fnode.kids[1].kids[k].name]
\* the statements of the body: the kids after arguments, before the decorators
BodyOf(fnode) == SubSeq(fnode.kids, 2, Len(fnode.kids) - fnode.val)

RECURSIVE Eval(_, _, _, _)
RECURSIVE EvalArgs(_, _, _, _, _, _)
RECURSIVE Exec(_, _, _, _)
RECURSIVE ExecBody(_, _, _, _, _)
RECURSIVE ExecFor(_, _, _, _, _, _)
RECURSIVE CallValue(_, _, _, _, _)

\* the result of a call from the result r of the function's frame: the
\* returned value, None when the body ends without return
FrameResult(r, loc) ==
    CASE r.st = "return" -> Ok(r.val, r.h, loc)
      [] r.st = "ok" -> Ok(NoneV, r.h, loc)
      [] OTHER -> Res(r.st, NoneV, r.exc, r.h, loc)

\* the frame of a call: the parameters bound to the arguments by position
BindArgs(params, args) ==
    [x \in {params[k] : k \in 1..Len(params)} |->
        args[CHOOSE k \in 1..Len(params) : params[k] = x]]

\* the call f(*args): a candidate function runs its body in a new frame whose
\* globals are its __globals__
CallValue(f, args, h, loc, ctx) ==
    CASE f.t = "builtin" -> CallBuiltin(f, args, h, loc)
      [] f.t = "func" ->
            IF Len(args) < Len(ParamNames(f.node)) /\ DefaultsOf(f.node) # <<>>
            THEN Raised("NotModelled", h, loc)
            ELSE IF Len(args) # Len(ParamNames(f.node)) THEN Raised("TypeError", h, loc)
            \* the call of an async def makes a coroutine object, the body does not run
            ELSE IF f.node.kind = "AsyncFunctionDef" THEN Ok(CoroutineV, h, loc)
            ELSE IF ctx.depth >= MaxCallDepth THEN Raised("RecursionError", h, loc)
            ELSE FrameResult(
                    ExecBody(BodyOf(f.node), 1, h, BindArgs(ParamNames(f.node), args),
                             Ctx(AddrOf(f), GlobalNames(BodyOf(f.node)), ctx.depth + 1)),
                    loc)
      [] OTHER -> Raised("TypeError", h, loc)

\* the argument expressions kids[k..], left to right, their values appended to acc
ArgsNext(kids, k, acc, r, loc, ctx) ==
    IF r.st # "ok" THEN [st |-> r.st, vals |-> acc, exc |-> r.exc, h |-> r.h]
    ELSE EvalArgs(kids, k + 1, Append(acc, r.val), r.h, loc, ctx)

EvalArgs(kids, k, acc, h, loc, ctx) ==
    IF k > Len(kids) THEN [st |-> "ok", vals |-> acc, exc |-> "", h |-> h]
    ELSE ArgsNext(kids, k, acc, Eval(kids[k], h, loc, ctx), loc, ctx)

\* l op r on two evaluated operands
BinOpApply(op, l, r, loc) ==
    IF r.st # "ok" THEN r
    ELSE IF l.val.t # "int" \/ r.val.t # "int" THEN Raised("TypeError", r.h, loc)
    ELSE CASE op = "Add" -> Ok(IntV(l.val.n + r.val.n), r.h, loc)
           [] op = "Sub" -> Ok(IntV(l.val.n - r.val.n), r.h, loc)
           [] op = "Div" ->
                IF r.val.n = 0 THEN Raised("ZeroDivisionError", r.h, loc)
                ELSE Ok(FloatV(l.val.n \div r.val.n), r.h, loc)
           [] OTHER -> Raised("NotModelled", r.h, loc)

BinOpRight(e, l, loc, ctx) ==
    IF l.st # "ok" THEN l
    ELSE BinOpApply(e.aux, l, Eval(e.kids[2], l.h, loc, ctx), loc)

\* o.attr on the evaluated object o: module objects carry attributes
GetAttr(o, attr, loc) ==
    IF o.st # "ok" THEN o
    ELSE IF o.val.t = "module" /\ Has(o.h[ModAddr(o.val.s)], attr)
    THEN Ok(o.h[ModAddr(o.val.s)][attr], o.h, loc)
    ELSE Raised("AttributeError", o.h, loc)

CallWithArgs(fv, a, loc, ctx) ==
    IF a.st # "ok" THEN Res(a.st, NoneV, a.exc, a.h, loc)
    ELSE CallValue(fv, a.vals, a.h, loc, ctx)

CallEvaluated(e, f, loc, ctx) ==
    IF f.st # "ok" THEN f
    ELSE CallWithArgs(f.val, EvalArgs(e.kids, 2, <<>>, f.h, loc, ctx), loc, ctx)

ConstantValue(e) ==
    CASE e.name = "None" -> NoneV
      [] e.name = "tuple" -> TupleV
      [] e.name = "str" -> StrV(e.aux)
      [] OTHER -> IntV(e.val)

\* the value of expression e in the frame with locals loc
Eval(e, h, loc, ctx) ==
    CASE e.kind = "Constant" -> Ok(ConstantValue(e), h, loc)
      [] e.kind = "Name" -> LoadName(e.name, h, loc, ctx)
      [] e.kind = "BinOp" -> BinOpRight(e, Eval(e.kids[1], h, loc, ctx), loc, ctx)
      [] e.kind = "Attribute" -> GetAttr(Eval(e.kids[1], h, loc, ctx), e.name, loc)
      [] e.kind = "Call" -> CallEvaluated(e, Eval(e.kids[1], h, loc, ctx), loc, ctx)
      [] e.kind = "Lambda" ->
            Ok(FuncV(N("Lambda", "<lambda>", "", 0, <<e.kids[1], Return(e.kids[2])>>), ctx.g), h, loc)
      [] OTHER -> Raised("NotModelled", h, loc)

\* o.attr = v or o[key] = v on the evaluated object o: an attribute of a
\* module object (math.x = v), an item of a dict object (__builtins__['x'] = v)
SetOn(o, target, v, loc) ==
    IF o.st # "ok" THEN o
    ELSE IF target.kind = "Attribute"
    THEN IF o.val.t # "module" THEN Raised("AttributeError", o.h, loc)
         ELSE Ok(NoneV, HeapPut(o.h, ModAddr(o.val.s),
                              Put(o.h[ModAddr(o.val.s)], target.name, v)), loc)
    ELSE IF o.val.t # "dict" THEN Raised("TypeError", o.h, loc)
         ELSE Ok(NoneV, HeapPut(o.h, AddrOf(o.val),
                              Put(o.h[AddrOf(o.val)], target.name, v)), loc)

\* the assignment of the evaluated value r to a target
Store(target, r, loc, ctx) ==
    IF r.st # "ok" THEN r
    ELSE CASE target.kind = "Name" -> StoreName(target.name, r.val, r.h, loc, ctx)
           [] target.kind \in {"Attribute", "Subscript"} ->
                SetOn(Eval(target.kids[1], r.h, loc, ctx), target, r.val, loc)
           [] OTHER -> Raised("NotModelled", r.h, loc)

\* IMPORT_NAME: the __import__ of the frame's builtins is called with the name
ImportName(name, h, loc, ctx) ==
    IF ~Has(BuiltinsOf(h, ctx.g), "__import__") THEN Raised("ImportError", h, loc)
    ELSE CallValue(BuiltinsOf(h, ctx.g)["__import__"], <<StrV(name)>>, h, loc, ctx)

\* import X [as y]: binds y (or X) to the imported module r
BindImport(al, r, loc, ctx) ==
    IF r.st # "ok" THEN r
    ELSE StoreName(IF al.aux = "" THEN al.name ELSE al.aux, r.val, r.h, loc, ctx)

\* from X import name: binds name to the attribute of the imported module r
BindImportFrom(al, r, loc, ctx) ==
    IF r.st # "ok" THEN r
    ELSE IF r.val.t = "module" /\ Has(r.h[ModAddr(r.val.s)], al.name)
    THEN StoreName(al.name, r.h[ModAddr(r.val.s)][al.name], r.h, loc, ctx)
    ELSE Raised("ImportError", r.h, loc)

ForNext(node, n, total, r, ctx) ==
    IF r.st # "ok" THEN r ELSE ExecFor(node, n - 1, total, r.h, r.loc, ctx)

ForBody(node, n, total, b, ctx) ==
    ForNext(node, n, total,
            ExecBody(SubSeq(node.kids, 3, Len(node.kids)), 1, b.h, b.loc, ctx), ctx)

\* the loop "for var in range(total): body" with n iterations left
ExecFor(node, n, total, h, loc, ctx) ==
    IF n = 0 THEN Ok(NoneV, h, loc)
    ELSE ForBody(node, n, total,
                 StoreName(node.kids[1].name, IntV(total - n), h, loc, ctx), ctx)

\* the loop over the evaluated iterable it
ForOver(stmt, it, loc, ctx) ==
    IF it.st # "ok" THEN it
    ELSE CASE it.val.t = "range" -> ExecFor(stmt, it.val.n, it.val.n, it.h, loc, ctx)
           \* an iterator that never ends: the loop never finishes
           [] it.val.t = "count" -> Res("hang", NoneV, "", it.h, loc)
           [] OTHER -> Raised("TypeError", it.h, loc)

ReturnValue(r, loc) == IF r.st # "ok" THEN r ELSE Res("return", r.val, "", r.h, loc)
Discard(r, loc) == IF r.st # "ok" THEN r ELSE Ok(NoneV, r.h, loc)

RECURSIVE ApplyDecorators(_, _, _, _, _)
\* the decorators ds[1..k] applied to the function r, the last one first
ApplyDecorators(ds, k, r, loc, ctx) ==
    IF r.st # "ok" \/ k = 0 THEN r
    ELSE ApplyDecorators(ds, k - 1, CallValue(ds[k], <<r.val>>, r.h, loc, ctx), loc, ctx)

BindDefined(stmt, r, loc, ctx) ==
    IF r.st # "ok" THEN r ELSE StoreName(stmt.name, r.val, r.h, loc, ctx)

\* def: a holds the evaluated decorators and default values; the function
\* object is made, decorated and bound to its name
DefineFunction(stmt, a, loc, ctx) ==
    IF a.st # "ok" THEN Res(a.st, NoneV, a.exc, a.h, loc)
    ELSE BindDefined(stmt,
            ApplyDecorators(a.vals, stmt.val, Ok(FuncV(stmt, ctx.g), a.h, loc), loc, ctx),
            loc, ctx)

\* one statement in the frame with locals loc
Exec(stmt, h, loc, ctx) ==
    CASE stmt.kind \in {"FunctionDef", "AsyncFunctionDef"} ->
            DefineFunction(stmt,
                EvalArgs(DecoratorsOf(stmt) \o DefaultsOf(stmt), 1, <<>>, h, loc, ctx),
                loc, ctx)
      [] stmt.kind = "Assign" ->
            Store(stmt.kids[1], Eval(stmt.kids[2], h, loc, ctx), loc, ctx)
      [] stmt.kind = "Return" -> ReturnValue(Eval(stmt.kids[1], h, loc, ctx), loc)
      [] stmt.kind = "Expr" -> Discard(Eval(stmt.kids[1], h, loc, ctx), loc)
      [] stmt.kind \in {"Global", "Pass"} -> Ok(NoneV, h, loc)
      [] stmt.kind = "Import" ->
            BindImport(stmt.kids[1], ImportName(stmt.kids[1].name, h, loc, ctx), loc, ctx)
      [] stmt.kind = "ImportFrom" ->
            BindImportFrom(stmt.kids[1], ImportName(stmt.name, h, loc, ctx), loc, ctx)
      [] stmt.kind = "For" -> ForOver(stmt, Eval(stmt.kids[2], h, loc, ctx), loc, ctx)
      \* while True: the loop never finishes
      [] stmt.kind = "While" -> Res("hang", NoneV, "", h, loc)
      \* class: __build_class__ is not among the builtins of the namespace
      [] stmt.kind = "ClassDef" -> Raised("NameError", h, loc)
      [] OTHER -> Raised("NotModelled", h, loc)

BodyNext(body, k, r, ctx) ==
    IF r.st # "ok" THEN r ELSE ExecBody(body, k + 1, r.h, r.loc, ctx)

\* the statements body[k..] in order; return, raise and hang end the body
ExecBody(body, k, h, loc, ctx) ==
    IF k > Len(body) THEN Ok(NoneV, h, loc)
    ELSE BodyNext(body, k, Exec(body[k], h, loc, ctx), ctx)

(***************************************************************************)
(* The candidate sources the invocations draw from.                        *)
(***************************************************************************)
\* def sub(a, b): return a - b
SrcSub == Source("sub", "ok", Module(<<
    FunctionDef("sub", <<"a", "b">>, <<Return(BinOp("Sub", Name("a"), Name("b")))>>)>>))
\* def invalid syntax here
SrcSyntax == Source("syntax", "SyntaxError", NoNode)
\* x = 1+1+1+...+1 (thousands of terms): the parser raises RecursionError
SrcDeep == Source("deep", "RecursionError", NoNode)
\* def f(): while True: pass
SrcWhile == Source("while", "ok", Module(<<
    FunctionDef("f", <<>>, <<While(Const(1), <<Pass>>), Return(Const(1))>>)>>))
\* import os / def f(): return 1
SrcImportOs == Source("import_os", "ok", Module(<<
    Import("os", ""), FunctionDef("f", <<>>, <<Return(Const(1))>>)>>))
\* return 1 (outside a function)
SrcReturnTop == Source("return_top", "ok", Module(<<Return(Const(1))>>))
\* def f(): return None
SrcNone == Source("none", "ok", Module(<<
    FunctionDef("f", <<>>, <<Return(ConstNone)>>)>>))
\* def f(): return 1 / 0
SrcDivZero == Source("div_zero", "ok", Module(<<
    FunctionDef("f", <<>>, <<Return(BinOp("Div", Const(1), Const(0)))>>)>>))
\* def f(): for i in itertools.count(): pass
SrcSpin == Source("spin", "ok", Module(<<
    FunctionDef("f", <<>>, <<
        For("i", Call(Attribute(Name("itertools"), "count"), <<>>), <<Pass>>),
        Return(Const(1))>>)>>))
\* for i in itertools.count(): pass / def f(): return 1
SrcTopSpin == Source("top_spin", "ok", Module(<<
    For("i", Call(Attribute(Name("itertools"), "count"), <<>>), <<Pass>>),
    FunctionDef("f", <<>>, <<Return(Const(1))>>)>>))
\* k = 1 / 0 / def f(): return 1
SrcTopRaise == Source("top_raise", "ok", Module(<<
    Assign(NameStore("k"), BinOp("Div", Const(1), Const(0))),
    FunctionDef("f", <<>>, <<Return(Const(1))>>)>>))
\* def helper(): return 4 / def target(): return helper()
SrcHelper == Source("helper", "ok", Module(<<
    FunctionDef("helper", <<>>, <<Return(Const(4))>>),
    FunctionDef("target", <<>>, <<Return(Call(Name("helper"), <<>>))>>)>>))
\* from math import sqrt / def calculate_sqrt(x): return sqrt(x)
SrcFromImport == Source("from_import", "ok", Module(<<
    ImportFrom("math", "sqrt"),
    FunctionDef("calculate_sqrt", <<"x">>, <<Return(Call(Name("sqrt"), <<Name("x")>>))>>)>>))
\* import math / def calculate_sqrt(x): return math.sqrt(x)
SrcMathSqrt == Source("math_sqrt", "ok", Module(<<
    Import("math", ""),
    FunctionDef("calculate_sqrt", <<"x">>,
        <<Return(Call(Attribute(Name("math"), "sqrt"), <<Name("x")>>))>>)>>))
\* k = 3 / def f(): return k
SrcTopVar == Source("top_var", "ok", Module(<<
    Assign(NameStore("k"), Const(3)),
    FunctionDef("f", <<>>, <<Return(Name("k"))>>)>>))
\* def set_global(): global test_var; test_var = 42; return test_var
SrcSetGlobal == Source("set_global", "ok", Module(<<
    FunctionDef("set_global", <<>>, <<
        Global("test_var"), Assign(NameStore("test_var"), Const(42)),
        Return(Name("test_var"))>>)>>))
\* def get_global(): return test_var
SrcGetGlobal == Source("get_global", "ok", Module(<<
    FunctionDef("get_global", <<>>, <<Return(Name("test_var"))>>)>>))
\* global test_var / test_var = 42 / def f(): return test_var
SrcTopGlobal == Source("top_global", "ok", Module(<<
    Global("test_var"), Assign(NameStore("test_var"), Const(42)),
    FunctionDef("f", <<>>, <<Return(Name("test_var"))>>)>>))
\* def f(): __builtins__['test_var'] = 42; return 1
SrcSetBuiltin == Source("set_builtin", "ok", Module(<<
    FunctionDef("f", <<>>, <<
        Assign(SubscriptStore(Name("__builtins__"), "test_var"), Const(42)),
        Return(Const(1))>>)>>))
\* def f(): math.test_var = 42; return 1
SrcSetAttr == Source("set_attr", "ok", Module(<<
    FunctionDef("f", <<>>, <<
        Assign(AttributeStore(Name("math"), "test_var"), Const(42)),
        Return(Const(1))>>)>>))
\* def f(): return math.test_var
SrcGetAttr == Source("get_attr", "ok", Module(<<
    FunctionDef("f", <<>>, <<Return(Attribute(Name("math"), "test_var"))>>)>>))
\* def f(): return random._os
SrcOs == Source("os", "ok", Module(<<
    FunctionDef("f", <<>>, <<Return(Attribute(Name("random"), "_os"))>>)>>))

\* an invocation request: code_string, function_name, args
Request(src, target, args) == [src |-> src, target |-> target, args |-> args]
NoRequest == Request(SrcSyntax, "", <<>>)

\* requests that end at each stage of the pipeline
PipelineRequests ==
    { Request(SrcSub, "sub", <<IntV(5), IntV(3)>>),
      Request(SrcSub, "bar", <<>>),
      Request(SrcSyntax, "invalid", <<>>),
      Request(SrcDeep, "f", <<>>),
      Request(SrcWhile, "f", <<>>),
      Request(SrcImportOs, "f", <<>>),
      Request(SrcReturnTop, "f", <<>>),
      Request(SrcNone, "f", <<>>),
      Request(SrcDivZero, "f", <<>>),
      Request(SrcSpin, "f", <<>>),
      Request(SrcTopSpin, "f", <<>>),
      Request(SrcTopRaise, "f", <<>>),
      Request(SrcSub, "math", <<>>),
      Request(SrcTopVar, "k", <<>>) }

\* requests whose candidates read and write names, modules and builtins
NamespaceRequests ==
    { Request(SrcHelper, "target", <<>>),
      Request(SrcFromImport, "calculate_sqrt", <<IntV(16)>>),
      Request(SrcMathSqrt, "calculate_sqrt", <<IntV(16)>>),
      Request(SrcTopVar, "f", <<>>),
      Request(SrcSetGlobal, "set_global", <<>>),
      Request(SrcGetGlobal, "get_global", <<>>),
      Request(SrcTopGlobal, "f", <<>>),
      Request(SrcSetBuiltin, "f", <<>>),
      Request(SrcSetAttr, "f", <<>>),
      Request(SrcGetAttr, "f", <<>>),
      Request(SrcOs, "f", <<>>) }

(***************************************************************************)
(* Families of candidate sources for the validator: an expression or a     *)
(* statement placed at the positions of a tree the traversal reaches.      *)
(***************************************************************************)
\* the positions an expression e is placed at
ExprContexts ==
    {"top", "def", "async", "lambda", "nested", "comp", "callarg", "chained",
     "for", "if", "class", "default", "decorator", "callee"}

InContext(c, e) ==
    CASE c = "top" -> Module(<<ExprStmt(e)>>)
      [] c = "def" -> Module(<<FunctionDef("f", <<>>, <<Return(e)>>)>>)
      [] c = "async" -> Module(<<AsyncFunctionDef("k", <<>>, <<Return(e)>>)>>)
      [] c = "lambda" -> Module(<<Assign(NameStore("h"), Lambda(<<"a">>, e))>>)
      [] c = "nested" -> Module(<<FunctionDef("k", <<>>, <<
                FunctionDef("j", <<>>, <<Return(e)>>), Return(Const(1))>>)>>)
      [] c = "comp" -> Module(<<FunctionDef("k", <<>>, <<
                Return(ListComp(e, "a", Call(Name("range"), <<Const(3)>>)))>>)>>)
      [] c = "callarg" -> Module(<<FunctionDef("k", <<>>, <<
                Return(Call(Name("len"), <<e>>))>>)>>)
      [] c = "chained" -> Module(<<ExprStmt(Attribute(Attribute(e, "c"), "d"))>>)
      [] c = "for" -> Module(<<
                For("i", Call(Name("range"), <<Const(2)>>), <<ExprStmt(e)>>)>>)
      [] c = "if" -> Module(<<FunctionDef("k", <<>>, <<
                If(Const(1), <<Pass>>, <<ExprStmt(e)>>)>>)>>)
      [] c = "class" -> Module(<<FunctionDef("k", <<>>, <<
                ClassDef("C", <<>>, <<ExprStmt(e)>>)>>)>>)
      [] c = "default" -> Module(<<FunctionDef("k", <<>>, <<
                FunctionDefFull("j", <<"p">>, <<e>>, <<Pass>>, <<>>)>>)>>)
      [] c = "decorator" -> Module(<<FunctionDef("k", <<>>, <<
                FunctionDefFull("j", <<>>, <<>>, <<Pass>>, <<e>>)>>)>>)
      [] c = "callee" -> Module(<<ExprStmt(Call(e, <<>>))>>)

\* the positions of an attribute access obj.attr: read, assigned or deleted
AttrContexts == ExprContexts \cup {"store", "del"}

AttrTree(c, obj, attr) ==
    CASE c = "store" -> Module(<<Assign(AttributeStore(obj, attr), Const(1))>>)
      [] c = "del" -> Module(<<FunctionDef("k", <<>>, <<
                Delete(AttributeDel(obj, attr))>>)>>)
      [] OTHER -> InContext(c, Attribute(obj, attr))

\* the object expressions of the accesses
ObjExprs ==
    {Name("a"), Const(1), Call(Name("len"), <<Name("a")>>), Attribute(Name("a"), "b")}

\* every denied name inside a function; one denied name at every position;
\* one denied name on every object expression; an attribute that is not
\* denied at every position
AttrCases ==
    ({"def"} \X {Name("a")} \X DANGEROUS_ATTRIBUTES)
      \cup (AttrContexts \X {Name("a")} \X {"__class__"})
      \cup ({"top", "def"} \X ObjExprs \X {"__globals__"})
      \cup (AttrContexts \X {Name("math")} \X {"sqrt"})

AttrRequests ==
    {Request(Source("attr", "ok", AttrTree(c[1], c[2], c[3])), "f", <<>>) : c \in AttrCases}

\* the positions a statement s is placed at
StmtContexts == {"top", "def", "async", "nested", "class", "method", "if", "else", "for"}

InStmtContext(c, s) ==
    CASE c = "top" -> Module(<<s>>)
      [] c = "def" -> Module(<<FunctionDef("f", <<>>, <<s, Return(Const(1))>>)>>)
      [] c = "async" -> Module(<<AsyncFunctionDef("k", <<>>, <<s>>)>>)
      [] c = "nested" -> Module(<<FunctionDef("k", <<>>, <<FunctionDef("j", <<>>, <<s>>)>>)>>)
      [] c = "class" -> Module(<<FunctionDef("k", <<>>, <<ClassDef("C", <<>>, <<s>>)>>)>>)
      [] c = "method" -> Module(<<FunctionDef("k", <<>>, <<
                ClassDef("C", <<>>, <<FunctionDef("m", <<"self">>, <<s>>)>>)>>)>>)
      [] c = "if" -> Module(<<FunctionDef("k", <<>>, <<If(Const(1), <<s>>, <<>>)>>)>>)
      [] c = "else" -> Module(<<FunctionDef("k", <<>>, <<If(Const(1), <<Pass>>, <<s>>)>>)>>)
      [] c = "for" -> Module(<<FunctionDef("k", <<>>, <<
                For("i", Call(Name("range"), <<Const(2)>>), <<s>>)>>)>>)

RangeCall(n) == Call(Name("range"), <<Const(n)>>)

WhileTrue == While(Const(1), <<Pass>>)
ForRange == For("i", RangeCall(2), <<Pass>>)
ListCompStmt == ExprStmt(ListComp(Name("a"), "a", RangeCall(3)))

\* while loops with a condition, around and inside a for loop
WhileStmts ==
    { While(BinOp("Sub", Name("x"), Const(1)), <<Assign(NameStore("x"), Const(0))>>),
      While(Const(1), <<ForRange>>),
      For("i", RangeCall(2), <<While(Const(0), <<Pass>>)>>) }

\* set, dict and generator comprehensions, a comprehension a for loop runs over
CompStmts ==
    { ExprStmt(SetComp(Name("a"), "a", RangeCall(3))),
      ExprStmt(DictComp(Name("a"), Name("a"), "a", RangeCall(3))),
      ExprStmt(GeneratorExp(Name("a"), "a", RangeCall(3))),
      For("i", ListComp(Name("a"), "a", RangeCall(3)), <<Pass>>) }

\* a while loop, a for loop and a comprehension at every position; the other
\* loops at top level and inside a function
LoopCases ==
    (StmtContexts \X {WhileTrue, ForRange})
      \cup ({"top", "def"} \X (WhileStmts \cup {For("i", RangeCall(2), <<ForRange>>)}))

\* the comprehensions are inside definitions that the request does not call
CompCases ==
    ((StmtContexts \ {"top"}) \X {ListCompStmt}) \cup ({"def", "nested"} \X CompStmts)

LoopRequests ==
    {Request(Source("loop", "ok", InStmtContext(c[1], c[2])), "f", <<>>) : c \in LoopCases}
      \cup {Request(Source("loop", "ok", InStmtContext(c[1], c[2])), "g", <<>>) : c \in CompCases}

CallName(id) == Call(Name(id), <<>>)

\* chains of nested function-like definitions: def and async def hold the
\* next definition in their body, a lambda holds only a lambda
DefKinds == {"def", "async", "lambda"}
MaxChain == 3

NestShapes ==
    {s \in UNION {[1..n -> DefKinds] : n \in 1..MaxChain} :
        \A k \in 1..(Len(s) - 1) : s[k] = "lambda" => s[k + 1] = "lambda"}

LevelNames == <<"f", "j", "m", "n">>

RECURSIVE LambdaChain(_)
LambdaChain(n) == IF n = 0 THEN Const(1) ELSE Lambda(<<>>, LambdaChain(n - 1))

RECURSIVE NestStmt(_, _)
\* the statement that holds the definitions s[k..], each inside the one before
NestStmt(s, k) ==
    IF k > Len(s) THEN Pass
    ELSE CASE s[k] = "lambda" -> Assign(NameStore("h"), LambdaChain(Len(s) - k + 1))
           [] s[k] = "def" ->
                FunctionDef(LevelNames[k], <<>>, <<NestStmt(s, k + 1), Return(Const(1))>>)
           [] s[k] = "async" ->
                AsyncFunctionDef(LevelNames[k], <<>>, <<NestStmt(s, k + 1), Return(Const(1))>>)

\* n sibling definitions at top level, each with nested siblings two deep
Siblings(n) ==
    Module([k \in 1..n |->
        FunctionDef(LevelNames[k], <<>>, <<
            FunctionDef("a", <<>>, <<Pass>>),
            Assign(NameStore("h"), Lambda(<<>>, Const(1))),
            AsyncFunctionDef("b", <<>>, <<Pass>>),
            Return(Const(1))>>)])

\* four deep; a lambda as default value of a nested def; a lambda in a method
\* of a class of a function; a lambda as decorator of a nested def
DeepTrees ==
    { Module(<<NestStmt(<<"def", "def", "def", "def">>, 1)>>),
      Module(<<NestStmt(<<"def", "lambda", "lambda", "lambda">>, 1)>>),
      Module(<<FunctionDef("k", <<>>, <<
          FunctionDefFull("j", <<"p">>, <<Lambda(<<>>, Const(1))>>, <<Pass>>, <<>>)>>)>>),
      Module(<<FunctionDef("k", <<>>, <<
          ClassDef("C", <<>>, <<FunctionDef("m", <<"self">>, <<
              Return(Lambda(<<>>, Const(1)))>>)>>)>>)>>),
      \* def k(): @(lambda g: g) / def j(): return 1 ; return j()
      Module(<<FunctionDef("k", <<>>, <<
          FunctionDefFull("j", <<>>, <<>>, <<Return(Const(1))>>, <<Lambda(<<"g">>, Name("g"))>>),
          Return(CallName("j"))>>)>>) }

NestRequests ==
    {Request(Source("nest", "ok", Module(<<NestStmt(s, 1)>>)), "f", <<>>) : s \in NestShapes}
      \cup {Request(Source("nest", "ok", Siblings(n)), "f", <<>>) : n \in 2..4}
      \cup {Request(Source("nest", "ok", tree), "k", <<>>) : tree \in DeepTrees}

\* sources in which a function calls its own name
SelfCallTrees ==
    { \* def f(): return f()
      Module(<<FunctionDef("f", <<>>, <<Return(CallName("f"))>>)>>),
      \* async def f(): return f()
      Module(<<AsyncFunctionDef("f", <<>>, <<Return(CallName("f"))>>)>>),
      \* def f(): return (lambda: f())()
      Module(<<FunctionDef("f", <<>>, <<Return(Call(Lambda(<<>>, CallName("f")), <<>>))>>)>>),
      \* def f(): return [f() for a in range(3)]
      Module(<<FunctionDef("f", <<>>, <<Return(ListComp(CallName("f"), "a", RangeCall(3)))>>)>>),
      \* def f(): if 1: for i in range(2): f()
      Module(<<FunctionDef("f", <<>>, <<
          If(Const(1), <<For("i", RangeCall(2), <<ExprStmt(CallName("f"))>>)>>, <<>>)>>)>>),
      \* def f(): def j(): pass / return f()
      Module(<<FunctionDef("f", <<>>, <<
          FunctionDef("j", <<>>, <<Pass>>), Return(CallName("f"))>>)>>),
      \* def f(): def j(): return j()
      Module(<<FunctionDef("f", <<>>, <<
          FunctionDef("j", <<>>, <<Return(CallName("j"))>>), Return(Const(1))>>)>>),
      \* def f(): def f(): pass / return f()
      Module(<<FunctionDef("f", <<>>, <<
          FunctionDef("f", <<>>, <<Pass>>), Return(CallName("f"))>>)>>),
      \* def f(f): return f(1)
      Module(<<FunctionDef("f", <<"f">>, <<Return(Call(Name("f"), <<Const(1)>>))>>)>>),
      \* def helper(): return 4 / def f(): return helper() + f()
      Module(<<FunctionDef("helper", <<>>, <<Return(Const(4))>>),
               FunctionDef("f", <<>>, <<
                   Return(BinOp("Add", CallName("helper"), CallName("f")))>>)>>) }

\* the self-call of f in the decorator of its nested def
\* def f(): @f() / def j(): pass ; return 1
DecoratorCallTree ==
    Module(<<FunctionDef("f", <<>>, <<
        FunctionDefFull("j", <<>>, <<>>, <<Pass>>, <<CallName("f")>>),
        Return(Const(1))>>)>>)

\* sources in which functions call other names
OtherCallTrees ==
    { \* def helper(): return 4 / def f(): return helper()
      Module(<<FunctionDef("helper", <<>>, <<Return(Const(4))>>),
               FunctionDef("f", <<>>, <<Return(CallName("helper"))>>)>>),
      \* def f(): def j(): return f() / return 1
      Module(<<FunctionDef("f", <<>>, <<
          FunctionDef("j", <<>>, <<Return(CallName("f"))>>), Return(Const(1))>>)>>),
      \* def f(): return 1 / x = f()
      Module(<<FunctionDef("f", <<>>, <<Return(Const(1))>>),
               Assign(NameStore("x"), CallName("f"))>>),
      \* def f(): return a.f()
      Module(<<FunctionDef("f", <<>>, <<Return(Call(Attribute(Name("a"), "f"), <<>>))>>)>>),
      \* def f(): return abs(-3)
      Module(<<FunctionDef("f", <<>>, <<Return(Call(Name("abs"), <<Const(-3)>>))>>)>>) }

\* sources in which functions call each other and none calls its own name
MutualTrees ==
    { \* def f(): return g() / def g(): return f()
      Module(<<FunctionDef("f", <<>>, <<Return(CallName("g"))>>),
               FunctionDef("g", <<>>, <<Return(CallName("f"))>>)>>),
      \* def f(n): return g(n) / def g(n): return h(n) / def h(n): return f(n)
      Module(<<FunctionDef("f", <<"n">>, <<Return(Call(Name("g"), <<Name("n")>>))>>),
               FunctionDef("g", <<"n">>, <<Return(Call(Name("h"), <<Name("n")>>))>>),
               FunctionDef("h", <<"n">>, <<Return(Call(Name("f"), <<Name("n")>>))>>)>>),
      \* def f(): return g() / async def g(): return f()
      Module(<<FunctionDef("f", <<>>, <<Return(CallName("g"))>>),
               AsyncFunctionDef("g", <<>>, <<Return(CallName("f"))>>)>>),
      \* def f(): def j(): return g() / return j() ; def g(): return f()
      Module(<<FunctionDef("f", <<>>, <<
                   FunctionDef("j", <<>>, <<Return(CallName("g"))>>), Return(CallName("j"))>>),
               FunctionDef("g", <<>>, <<Return(CallName("f"))>>)>>) }

\* the target is the first function, called with 1 for each of its parameters
RecRequests ==
    {Request(Source("rec", "ok", tree), "f",
             [k \in 1..Len(ParamNames(tree.kids[1])) |-> IntV(1)]) :
        tree \in SelfCallTrees \cup {DecoratorCallTree} \cup OtherCallTrees \cup MutualTrees}

\* module names: the allowed ones, host modules, a dotted name and the
\* missing name of "from . import x"
DisallowedNames == {"os", "sys", "os.path", "subprocess", ""}

ReturnOne == FunctionDef("f", <<>>, <<Return(Const(1))>>)

\* import statements and calls of __import__ at the positions of a source
ImportTree(c, x) ==
    CASE \* import x / def f(): return 1
         c = "import" -> Module(<<Import(x, ""), ReturnOne>>)
         \* from x import sqrt / def f(): return 1
      [] c = "from" -> Module(<<ImportFrom(x, "sqrt"), ReturnOne>>)
         \* def g(): import x / def f(): return 1
      [] c = "uncalled" -> Module(<<FunctionDef("g", <<>>, <<Import(x, "")>>), ReturnOne>>)
         \* def f(): import x as m ; return m
      [] c = "called" -> Module(<<FunctionDef("f", <<>>, <<
                                Import(x, "m"), Return(Name("m"))>>)>>)
         \* import math, x / def f(): return 1
      [] c = "second" -> Module(<<
                N("Import", "", "", 0, <<Alias("math", ""), Alias(x, "")>>), ReturnOne>>)
         \* def f(): return __import__('x')
      [] c = "direct" -> Module(<<FunctionDef("f", <<>>, <<
                                Return(Call(Name("__import__"), <<ConstStr(x)>>))>>)>>)

\* import statements the gate meets
ImportCases ==
    ({"import"} \X ({"math", "random", "statistics"} \cup DisallowedNames))
      \cup ({"from"} \X {"math", "os", "os.path", ""})
      \cup ({"uncalled", "called"} \X {"math", "os"})
      \cup ({"second"} \X {"os"})

ImportRequests ==
    {Request(Source("import", "ok", ImportTree(c[1], c[2])), "f", <<>>) : c \in ImportCases}

\* imports that reach __import__: statements that are executed and direct calls
GuardCases ==
    ({"called"} \X {"math", "random", "os", "sys"})
      \cup ({"direct"} \X {"math", "random", "operator", "os", "sys", "os.path"})

GuardRequests ==
    {Request(Source("guard", "ok", ImportTree(c[1], c[2])), "f", <<>>) : c \in GuardCases}

\* statements and the violation the validator raises for each ("" for none)
Statements ==
    { [stmt |-> WhileTrue, raises |-> "WhileLoopForbidden"],
      [stmt |-> ExprStmt(Attribute(Name("x"), "__class__")), raises |-> "DangerousAttribute"],
      [stmt |-> FunctionDef("a", <<>>, <<FunctionDef("b", <<>>, <<
                    FunctionDef("c", <<>>, <<Pass>>)>>)>>),
       raises |-> "NestingDepthExceeded"],
      [stmt |-> FunctionDef("r", <<>>, <<Return(CallName("r"))>>),
       raises |-> "RecursionDetected"],
      [stmt |-> FunctionDef("g", <<>>, <<Return(Const(1))>>), raises |-> NoViolation] }

\* sources of one statement or of two statements in a row
StatementCases == {<<a>> : a \in Statements} \cup {<<a, b>> : a, b \in Statements}

StatementTree(c) == Module([k \in 1..Len(c) |-> c[k].stmt])

StatementRequests ==
    {Request(Source("statements", "ok", StatementTree(c)), "g", <<>>) : c \in StatementCases}

\* the names the prompt announces under "Available Built-in Functions"
\* (prompts.py:99-106)
PromptBuiltins ==
    {"abs", "sum", "min", "max", "pow", "round", "divmod",
     "len", "range", "enumerate", "zip", "map", "filter", "sorted", "reversed",
     "all", "any",
     "isinstance", "issubclass", "hasattr", "getattr", "setattr", "callable",
     "int", "float", "complex", "str", "list", "tuple", "dict", "set", "frozenset",
     "bool", "bytes", "bytearray"}

\* def f(): return x
BuiltinUse(x) == Module(<<FunctionDef("f", <<>>, <<Return(Name(x))>>)>>)

\* a target for every announced builtin
BuiltinRequests ==
    {Request(Source("builtin", "ok", BuiltinUse(x)), "f", <<>>) : x \in PromptBuiltins}

(***************************************************************************)
(* State of the process.                                                   *)
(*   pc            stage of each invocation of safe_execute_code_tool      *)
(*   request       its code_string, function_name and args                 *)
(*   validator     the CodeSecurityValidator object that validated its     *)
(*                 tree: the fields the traversal left and the violation   *)
(*                 it raised                                               *)
(*   loop          the invocation whose coroutine runs on the event loop   *)
(*                 (0: the loop is idle); a coroutine runs until it awaits *)
(*                 or returns                                              *)
(*   heap          the dict and module objects of the process              *)
(*   safe_globals  address of the invocation's globals dict                *)
(*   worker        state of the executor job of asyncio.to_thread          *)
(*   result        what the job returned, or the exception it raised       *)
(*   outcome       what the invocation gave its caller                     *)
(*   via           the stage at which the invocation ended                 *)
(*   compiled      the invocations whose tree was handed to compile()      *)
(*   handler_cache the entry of the lru_cache of get_llm_answer_handler    *)
(*   thread        the request threads that resolve the handler dependency *)
(*   built         how many clients, agents and handlers were constructed  *)
(*   app           the application whose lifespan has started              *)
(*   cache         the module global caches.cache                          *)
(*   redis         the entries of the Redis store                          *)
(*   call          the calls of the decorated AnswerService.get_answer     *)
(***************************************************************************)
VARIABLES pc, request, validator, loop, heap, safe_globals, worker, result, outcome, via,
          compiled, handler_cache, thread, built, app, cache, redis, call

toolVars == <<pc, request, validator, loop, heap, safe_globals, worker, result, outcome, via,
              compiled>>

handlerVars == <<handler_cache, thread, built>>

cacheVars == <<app, cache, redis, call>>

serviceVars == <<handlerVars, cacheVars>>

vars == <<toolVars, serviceVars>>

NoAddr == Addr("", 0)

Pending == [kind |-> "pending", val |-> NoneV, exc |-> ""]
Returned(v) == [kind |-> "returned", val |-> v, exc |-> ""]
Propagated(e) == [kind |-> "raised", val |-> NoneV, exc |-> e]

(***************************************************************************)
(* The handler dependency.  get_llm_answer_handler is a synchronous        *)
(* dependency: every request resolves it on a thread of the server's       *)
(* thread pool, through the wrapper of lru_cache(maxsize=1).               *)
(***************************************************************************)
NumThreads == 3

Threads == 1..NumThreads

\* the lru_cache holds no entry / a thread holds no handler
NoHandler == 0

ThreadInit == [pc |-> "Idle", got |-> NoHandler]

BuiltInit == [llm |-> 0, agent |-> 0, handler |-> 0]

(***************************************************************************)
(* The answer cache.  Texts are strings; the bytes that Redis keeps are    *)
(* written as the text they encode.                                        *)
(***************************************************************************)
NumCalls == 2

Calls == 1..NumCalls

cache_ttl_in_seconds == 60

cache_prefix == "sf"

_namespace == "answers"

\* the two applications of the repository: main.py configures the cache in
\* its lifespan, src/main.py leaves caches.cache as None
NotStarted == ""

Apps == {"main", "src.main"}

NoCache == "None"

RedisCacheStorage == "RedisCacheStorage"

\* ":".join(parts)
RECURSIVE Join(_)
Join(parts) ==
    IF parts = <<>> THEN ""
    ELSE IF Len(parts) = 1 THEN parts[1]
    ELSE parts[1] \o ":" \o Join(Tail(parts))

\* the hexadecimal digest of a text, kept as the text in a wrapper: equal
\* texts have equal digests, and collisions of md5 are left out
Md5(s) == "md5(" \o s \o ")"

\* args is the tuple of the positional arguments. kwargs the sequence of
\* the (name, value) pairs of the keyword arguments in call order
get_cache_key(namespace, args, kwargs) ==
    LET prepare_mark == args \o [k \in 1..Len(kwargs) |-> kwargs[k][1] \o ":" \o kwargs[k][2]]
        mark == Md5(Join(prepare_mark))
    IN  cache_prefix \o ":" \o namespace \o ":" \o mark

\* the ways in which get_answer is called with a question
CallArguments ==
    {[args |-> <<>>, kwargs |-> << <<"question", "2+2">> >>],
     [args |-> <<>>, kwargs |-> << <<"question", "25!">> >>],
     [args |-> <<"2+2">>, kwargs |-> <<>>]}

\* the keys of these calls
CacheKeys == {get_cache_key(_namespace, a.args, a.kwargs) : a \in CallArguments}

\* the binding of the parameter question of get_answer
Question(a) == IF a.args # <<>> THEN a.args[1] ELSE a.kwargs[1][2]

\* an integer outside the 64-bit range, kept by its decimal digits
BigIntV(digits) == [t |-> "int", n |-> 0, s |-> digits, node |-> NoNode]

Factorial25 == BigIntV("15511210043330985984000000")

\* what LLMAnswerHandler.handle gives back: no answer, an answer, an answer
\* beyond 64 bits, or an exception of the agent
HandlerResults ==
    {Returned(NoneV), Returned(IntV(4)), Returned(Factorial25), Propagated("Exception")}

\* orjson.dumps raises JSONEncodeError for an integer beyond 64 bits
DumpsRaises(v) == v.t = "int" /\ v.s # ""

\* orjson.dumps for the values that it serialises
Dumps(v) ==
    CASE v.t = "None" -> "null"
      [] v.t = "str" -> "\"" \o v.s \o "\""
      [] v.t = "int" -> ToString(v.n)

\* orjson.loads: the value that a document denotes
Loads(d) ==
    IF d = "null" THEN NoneV
    ELSE CHOOSE v \in {r.val : r \in HandlerResults} : ~DumpsRaises(v) /\ Dumps(v) = d

\* the result of client.get: None, or the bytes of the entry
NoData == [found |-> FALSE, bytes |-> ""]

Data(b) == [found |-> TRUE, bytes |-> b]

\* "if data:" -- None and empty bytes are false
Truthy(d) == d.found /\ d.bytes # ""

Holds(store, name) == \E e \in store : e.name = name

Entry(store, name) == CHOOSE e \in store : e.name = name

\* client.set(name, value, ex): the entry replaces the one under the name
client_set(store, name, value, ex) ==
    {e \in store : e.name # name} \cup {[name |-> name, value |-> value, ex |-> ex]}

CallInit ==
    [pc |-> "Idle", cls |-> 0, args |-> <<>>, kwargs |-> <<>>, cache_key |-> "",
     cache_instance |-> NoCache, data |-> NoData, returned |-> Pending,
     outcome |-> Pending, handled |-> <<>>, reads |-> <<>>, writes |-> <<>>]

Init ==
    /\ pc = [i \in Invocations |-> "Idle"]
    /\ request = [i \in Invocations |-> NoRequest]
    /\ validator = [i \in Invocations |-> ValidatorInit]
    /\ loop = 0
    /\ heap = InitHeap
    /\ safe_globals = [i \in Invocations |-> NoAddr]
    /\ worker = [i \in Invocations |-> "none"]
    /\ result = [i \in Invocations |-> Pending]
    /\ outcome = [i \in Invocations |-> Pending]
    /\ via = [i \in Invocations |-> ""]
    /\ compiled = {}
    /\ handler_cache = NoHandler
    /\ thread = [t \in Threads |-> ThreadInit]
    /\ built = BuiltInit
    /\ app = NotStarted
    /\ cache = NoCache
    /\ redis = {}
    /\ call = [c \in Calls |-> CallInit]

\* the coroutine of invocation i returns o to its caller (or raises) and
\* leaves the event loop
Finish(i, o, how) ==
    /\ pc' = [pc EXCEPT ![i] = "Done"]
    /\ outcome' = [outcome EXCEPT ![i] = o]
    /\ via' = [via EXCEPT ![i] = how]
    /\ loop' = 0

\* a caller invokes safe_execute_code_tool; the coroutine starts when the
\* event loop is idle
Receive(i, r) ==
    /\ pc[i] = "Idle"
    /\ loop = 0
    /\ IF i = 1 THEN TRUE ELSE pc[i - 1] # "Idle"
    /\ pc' = [pc EXCEPT ![i] = "Validating"]
    /\ request' = [request EXCEPT ![i] = r]
    /\ loop' = i
    /\ UNCHANGED <<validator, heap, safe_globals, worker, result, outcome, via, compiled, serviceVars>>

\* one validator object kept from call to call, its fields as the last
\* traversal left them
CodeSecurityValidator_Kept(vs, i) ==
    IF i = 1 THEN ValidatorInit ELSE [vs[i - 1] EXCEPT !.violation = NoViolation]

\* validator = CodeSecurityValidator() (helpers.py:160): a new object for
\* every call, whatever the validators vs of the other invocations hold
CodeSecurityValidator(vs, i) == ValidatorInit

\* validator.validate(tree) (helpers.py:93-94, 161) on the validator object v
validate(v, tree) == Visit(tree, v)

\* the coroutine after validate_code_security ended: e is the exception it
\* raised ("" when it returned the tree), v the validator object it used
AfterValidation(i, e, v) ==
    /\ validator' = [validator EXCEPT ![i] = v]
    /\ CASE e = "" ->
              /\ pc' = [pc EXCEPT ![i] = "CheckingImports"]
              /\ UNCHANGED <<outcome, via, loop>>
         [] e \in {"SyntaxError", "SecurityViolation"} ->
              Finish(i, Returned(NoneV), "Rejected")
         [] OTHER ->
              \* no except clause matches: the exception leaves the tool
              Finish(i, Propagated(e), "Propagated")

\* the validator object after the traversal: v raised a violation or not
Traversed(i, v) ==
    AfterValidation(i, IF v.violation # NoViolation THEN "SecurityViolation" ELSE "", v)

\* tools.py:38-46
ValidateCode(i) ==
    /\ pc[i] = "Validating"
    /\ IF Parse(request[i].src) # "ok"
       THEN AfterValidation(i, Parse(request[i].src), validator[i])
       ELSE Traversed(i, validate(CodeSecurityValidator(validator, i), request[i].src.tree))
    /\ UNCHANGED <<request, heap, safe_globals, worker, result, compiled, serviceVars>>

\* CheckImports with the gate only logging a disallowed module
CheckImports_LogOnly(i) ==
    /\ pc[i] = "CheckingImports"
    /\ pc' = [pc EXCEPT ![i] = "Compiling"]
    /\ UNCHANGED <<outcome, via, loop>>
    /\ UNCHANGED <<request, validator, heap, safe_globals, worker, result, compiled, serviceVars>>

\* tools.py:48-59
CheckImports(i) ==
    /\ pc[i] = "CheckingImports"
    /\ IF ImportGateRejects(request[i].src.tree)
       THEN Finish(i, Returned(NoneV), "DisallowedImport")
       ELSE /\ pc' = [pc EXCEPT ![i] = "Compiling"]
            /\ UNCHANGED <<outcome, via, loop>>
    /\ UNCHANGED <<request, validator, heap, safe_globals, worker, result, compiled, serviceVars>>

\* tools.py:64
Compile(i) ==
    /\ pc[i] = "Compiling"
    /\ compiled' = compiled \cup {i}
    /\ IF CompileFails(request[i].src.tree)
       THEN Finish(i, Returned(NoneV), "CompileFailed")
       ELSE /\ pc' = [pc EXCEPT ![i] = "BuildingNamespace"]
            /\ UNCHANGED <<outcome, via, loop>>
    /\ UNCHANGED <<request, validator, heap, safe_globals, worker, result, serviceVars>>

\* NamespaceCopy without the copy: SAFE_NAMESPACE itself
NamespaceCopy_Shared(i) == TemplateAddr
\* SAFE_NAMESPACE.copy() (tools.py:65): a new dict object
NamespaceCopy(i) == GlobalsAddr(i)
\* BuiltinsCopy without the copy: the template's builtins dict itself
BuiltinsCopy_Shared(i) == TemplateBuiltinsAddr
\* SAFE_NAMESPACE["__builtins__"].copy() (tools.py:66): a new dict object
BuiltinsCopy(i) == BuiltinsAddr(i)

\* tools.py:65-67: the heap with the invocation's globals, builtins and
\* local_namespace dicts
NamespaceBuilt(h, i) ==
    LET g == NamespaceCopy(i)
        b == BuiltinsCopy(i)
        h1 == HeapPut(h, g, h[TemplateAddr])
        h2 == HeapPut(h1, b, h1[AddrOf(h1[TemplateAddr]["__builtins__"])])
        h3 == HeapPut(h2, g, Put(h2[g], "__builtins__", DictV(b.k, b.i)))
    IN  HeapPut(h3, LocalsAddr(i), EmptyDict)

BuildNamespace(i) ==
    /\ pc[i] = "BuildingNamespace"
    /\ heap' = NamespaceBuilt(heap, i)
    /\ safe_globals' = [safe_globals EXCEPT ![i] = NamespaceCopy(i)]
    /\ pc' = [pc EXCEPT ![i] = "ExecutingDefinitions"]
    /\ UNCHANGED <<request, validator, loop, worker, result, outcome, via, compiled, serviceVars>>

\* exec(code, safe_globals, local_namespace) (tools.py:68)
ExecCode(tree, h, g) == ExecBody(tree.kids, 1, h, EmptyDict, Ctx(g, GlobalNames(tree.kids), 0))

\* the coroutine after exec ended with r
AfterExec(i, r) ==
    CASE r.st = "ok" ->
            /\ heap' = HeapPut(r.h, LocalsAddr(i), r.loc)
            /\ pc' = [pc EXCEPT ![i] = "ResolvingTarget"]
            /\ UNCHANGED <<outcome, via, loop>>
      [] r.st = "hang" ->
            \* exec never returns: the coroutine stays on the event loop
            /\ heap' = HeapPut(r.h, LocalsAddr(i), r.loc)
            /\ pc' = [pc EXCEPT ![i] = "Blocked"]
            /\ UNCHANGED <<outcome, via, loop>>
      [] OTHER ->
            \* except Exception (tools.py:79-82)
            /\ heap' = r.h
            /\ Finish(i, Returned(NoneV), "DefinitionError")

ExecuteDefinitions(i) ==
    /\ pc[i] = "ExecutingDefinitions"
    /\ AfterExec(i, ExecCode(request[i].src.tree, heap, safe_globals[i]))
    /\ UNCHANGED <<request, validator, safe_globals, worker, result, compiled, serviceVars>>

\* ResolveTarget looking the name up in safe_globals as well
ResolveTarget_AnyScope(i) ==
    /\ pc[i] = "ResolvingTarget"
    /\ IF ~Has(heap[LocalsAddr(i)], request[i].target)
          /\ ~Has(heap[safe_globals[i]], request[i].target)
       THEN /\ Finish(i, Returned(NoneV), "NotFound")
            /\ UNCHANGED worker
       ELSE /\ pc' = [pc EXCEPT ![i] = "Invoking"]
            /\ worker' = [worker EXCEPT ![i] = "queued"]
            /\ loop' = 0
            /\ UNCHANGED <<outcome, via>>
    /\ UNCHANGED <<request, validator, heap, safe_globals, result, compiled, serviceVars>>

\* tools.py:70-77, up to the await: the job is submitted to the executor
ResolveTarget(i) ==
    /\ pc[i] = "ResolvingTarget"
    /\ IF ~Has(heap[LocalsAddr(i)], request[i].target)
       THEN /\ Finish(i, Returned(NoneV), "NotFound")
            /\ UNCHANGED worker
       ELSE /\ pc' = [pc EXCEPT ![i] = "Invoking"]
            /\ worker' = [worker EXCEPT ![i] = "queued"]
            /\ loop' = 0
            /\ UNCHANGED <<outcome, via>>
    /\ UNCHANGED <<request, validator, heap, safe_globals, result, compiled, serviceVars>>

Busy == {j \in Invocations : worker[j] \in {"running", "hung"}}

\* WorkerStart with a thread of its own for every job
WorkerStart_OwnThread(i) ==
    /\ worker[i] = "queued"
    /\ worker' = [worker EXCEPT ![i] = "running"]
    /\ UNCHANGED <<pc, request, validator, loop, heap, safe_globals, result, outcome, via, compiled, serviceVars>>

\* a thread of the executor takes the job
WorkerStart(i) ==
    /\ worker[i] = "queued"
    /\ Cardinality(Busy) < PoolSize
    /\ worker' = [worker EXCEPT ![i] = "running"]
    /\ UNCHANGED <<pc, request, validator, loop, heap, safe_globals, result, outcome, via, compiled, serviceVars>>

RECURSIVE Reverse(_)
Reverse(q) == IF q = <<>> THEN <<>> ELSE Append(Reverse(Tail(q)), Head(q))

\* ThreadCall with the arguments passed in reverse order
ThreadCall_Reversed(func, args, h, g) ==
    CallValue(func, Reverse(args), h, EmptyDict, Ctx(g, {}, 0))

\* func(*args) in the worker thread (tools.py:76)
ThreadCall(func, args, h, g) == CallValue(func, args, h, EmptyDict, Ctx(g, {}, 0))

\* the job after the call ended with r: it sets its own future
AfterCall(i, r) ==
    /\ heap' = r.h
    /\ CASE r.st = "ok" ->
              /\ worker' = [worker EXCEPT ![i] = "returned"]
              /\ result' = [result EXCEPT ![i] = Returned(r.val)]
         [] r.st = "hang" ->
              /\ worker' = [worker EXCEPT ![i] = "hung"]
              /\ UNCHANGED result
         [] OTHER ->
              /\ worker' = [worker EXCEPT ![i] = "raised"]
              /\ result' = [result EXCEPT ![i] = Propagated(r.exc)]

\* WorkerRun with one result slot shared by the job and the caller: a job
\* that ends after the caller returned overwrites what the caller got
WorkerRun_SharedSlot(i) ==
    /\ worker[i] = "running"
    /\ AfterCall(i, ThreadCall(heap[LocalsAddr(i)][request[i].target], request[i].args,
                               heap, safe_globals[i]))
    /\ outcome' = [outcome EXCEPT ![i] =
                      IF pc[i] = "Done" /\ result'[i].kind = "returned" THEN result'[i] ELSE @]
    /\ UNCHANGED <<pc, request, validator, loop, safe_globals, via, compiled, serviceVars>>

\* the job runs the target in its thread
WorkerRun(i) ==
    /\ worker[i] = "running"
    /\ AfterCall(i, ThreadCall(heap[LocalsAddr(i)][request[i].target], request[i].args,
                               heap, safe_globals[i]))
    /\ UNCHANGED <<pc, request, validator, loop, safe_globals, outcome, via, compiled, serviceVars>>

\* the await returns the job's result (tools.py:75-78) or re-raises its
\* exception, which except Exception turns into None (tools.py:79-82)
Deliver(i) ==
    /\ pc[i] = "Invoking"
    /\ loop = 0
    /\ worker[i] \in {"returned", "raised"}
    /\ IF worker[i] = "returned"
       THEN Finish(i, Returned(result[i].val), "Success")
       ELSE Finish(i, Returned(NoneV), "RuntimeError")
    /\ UNCHANGED <<request, validator, heap, safe_globals, worker, result, compiled, serviceVars>>

\* settings.safe_execute_code_timeout_sec elapses before the job is done:
\* wait_for raises TimeoutError, which except Exception turns into None; a
\* job not yet started is cancelled, a running one is left running
Timeout(i) ==
    /\ pc[i] = "Invoking"
    /\ loop = 0
    /\ worker[i] \in {"queued", "running", "hung"}
    /\ Finish(i, Returned(NoneV), "Timeout")
    /\ worker' = [worker EXCEPT ![i] = IF @ = "queued" THEN "cancelled" ELSE @]
    /\ UNCHANGED <<request, validator, heap, safe_globals, result, compiled, serviceVars>>

\* a request thread calls get_llm_answer_handler(): the wrapper looks its
\* only key up; on a hit it returns the entry, on a miss it calls the
\* decorated function, which starts to construct a handler
get_llm_answer_handler(t) ==
    /\ thread[t].pc = "Idle"
    /\ IF handler_cache # NoHandler
          THEN thread' = [thread EXCEPT ![t] = [pc |-> "Resolved", got |-> handler_cache]]
          ELSE thread' = [thread EXCEPT ![t] = [pc |-> "Constructing", got |-> NoHandler]]
    /\ UNCHANGED <<handler_cache, built, cacheVars, toolVars>>

\* LLMAnswerHandler.__init__ builds the client of the model
LLMAnswerHandler_llm(t) ==
    /\ thread[t].pc = "Constructing"
    /\ built' = [built EXCEPT !.llm = @ + 1]
    /\ thread' = [thread EXCEPT ![t].pc = "CreatingAgent"]
    /\ UNCHANGED <<handler_cache, cacheVars, toolVars>>

\* LLMAnswerHandler.__init__ creates the agent and returns the new handler
\* to the wrapper, which stores it unless the key was added meanwhile and
\* returns the handler of this call
LLMAnswerHandler_agent(t) ==
    /\ thread[t].pc = "CreatingAgent"
    /\ built' = [built EXCEPT !.agent = @ + 1, !.handler = @ + 1]
    /\ handler_cache' = IF handler_cache = NoHandler THEN built.handler + 1
                                                    ELSE handler_cache
    /\ thread' = [thread EXCEPT ![t] = [pc |-> "Resolved", got |-> built.handler + 1]]
    /\ UNCHANGED <<cacheVars, toolVars>>

\* get_answer_service receives the handler; the request ends and its thread
\* goes back to the pool
get_answer_service(t) ==
    /\ thread[t].pc = "Resolved"
    /\ thread' = [thread EXCEPT ![t].pc = "Idle"]
    /\ UNCHANGED <<handler_cache, built, cacheVars, toolVars>>

\* the server starts application a; the lifespan of main.py sets caches.cache
lifespan(a) ==
    /\ app = NotStarted
    /\ app' = a
    /\ cache' = IF a = "main" THEN RedisCacheStorage ELSE NoCache
    /\ UNCHANGED <<redis, call, handlerVars, toolVars>>

\* the function behind the wrapper is entered: AnswerService.get_answer
\* awaits the handler with the question
Invoke(c, rec) ==
    [rec EXCEPT !.pc = "Handling",
                !.handled = Append(@, [cls |-> rec.cls, question |-> Question(rec)])]

\* the variant of the wrapper that reads the cache whether or not one is
\* configured
wrapper_CacheAssumed(c, a) ==
    /\ app # NotStarted
    /\ call[c].pc = "Idle"
    /\ call' = [call EXCEPT ![c] =
            [call[c] EXCEPT !.cls = c, !.args = a.args, !.kwargs = a.kwargs,
                            !.cache_key = get_cache_key(_namespace, a.args, a.kwargs),
                            !.cache_instance = cache, !.pc = "Reading"]]
    /\ UNCHANGED <<app, cache, redis, handlerVars, toolVars>>

\* the variant of the wrapper whose key also covers the instance (cls)
wrapper_KeyPerInstance(c, a) ==
    /\ app # NotStarted
    /\ call[c].pc = "Idle"
    /\ LET rec == [call[c] EXCEPT !.cls = c, !.args = a.args, !.kwargs = a.kwargs,
                                  !.cache_key = get_cache_key(_namespace, <<ToString(c)>> \o a.args,
                                                              a.kwargs),
                                  !.cache_instance = cache]
       IN  call' = [call EXCEPT ![c] = IF rec.cache_instance # NoCache
                                         THEN [rec EXCEPT !.pc = "Reading"]
                                         ELSE Invoke(c, rec)]
    /\ UNCHANGED <<app, cache, redis, handlerVars, toolVars>>

\* call c of the decorated get_answer on its own AnswerService instance:
\* the wrapper computes the key and takes the cache; without a cache it goes
\* on to the function
wrapper(c, a) ==
    /\ app # NotStarted
    /\ call[c].pc = "Idle"
    /\ LET rec == [call[c] EXCEPT !.cls = c, !.args = a.args, !.kwargs = a.kwargs,
                                  !.cache_key = get_cache_key(_namespace, a.args, a.kwargs),
                                  !.cache_instance = cache]
       IN  call' = [call EXCEPT ![c] = IF rec.cache_instance # NoCache
                                         THEN [rec EXCEPT !.pc = "Reading"]
                                         ELSE Invoke(c, rec)]
    /\ UNCHANGED <<app, cache, redis, handlerVars, toolVars>>

\* cache_instance.get_object answers: a true entry is deserialised and
\* returned, otherwise the function is entered
get_object(c) ==
    /\ call[c].pc = "Reading"
    /\ LET data == IF Holds(redis, call[c].cache_key)
                      THEN Data(Entry(redis, call[c].cache_key).value)
                      ELSE NoData
           rec == [call[c] EXCEPT !.data = data, !.reads = Append(@, call[c].cache_key)]
       IN  call' = [call EXCEPT ![c] = IF Truthy(data)
                                         THEN [rec EXCEPT !.pc = "Done",
                                                          !.outcome = Returned(Loads(data.bytes))]
                                         ELSE Invoke(c, rec)]
    /\ UNCHANGED <<app, cache, redis, handlerVars, toolVars>>

\* the handler finishes with r: an exception leaves the wrapper, a result is
\* returned when there is no cache, and serialised for set_object otherwise
get_answer(c, r) ==
    /\ call[c].pc = "Handling"
    /\ LET rec == [call[c] EXCEPT !.returned = r]
       IN  call' = [call EXCEPT ![c] =
               IF r.kind = "raised"
                 THEN [rec EXCEPT !.pc = "Done", !.outcome = r]
               ELSE IF rec.cache_instance = NoCache
                 THEN [rec EXCEPT !.pc = "Done", !.outcome = r]
               ELSE IF DumpsRaises(r.val)
                 THEN [rec EXCEPT !.pc = "Done", !.outcome = Propagated("JSONEncodeError")]
               ELSE [rec EXCEPT !.pc = "Writing"]]
    /\ UNCHANGED <<app, cache, redis, handlerVars, toolVars>>

\* the variant of the wrapper that stores a result only if it is not None
set_object_SkipNone(c) ==
    /\ call[c].pc = "Writing"
    /\ LET value == Dumps(call[c].returned.val)
           stored == call[c].returned.val # NoneV
       IN  /\ redis' = IF stored
                         THEN client_set(redis, call[c].cache_key, value, cache_ttl_in_seconds)
                         ELSE redis
           /\ call' = [call EXCEPT ![c].pc = "Done",
                                    ![c].outcome = call[c].returned,
                                    ![c].writes = IF stored
                                                    THEN Append(@, [name |-> call[c].cache_key,
                                                                    value |-> value,
                                                                    ex |-> cache_ttl_in_seconds])
                                                    ELSE @]
    /\ UNCHANGED <<app, cache, handlerVars, toolVars>>

\* cache_instance.set_object stores the serialised result with its time to
\* live, and the wrapper returns the result
set_object(c) ==
    /\ call[c].pc = "Writing"
    /\ LET value == Dumps(call[c].returned.val)
       IN  /\ redis' = client_set(redis, call[c].cache_key, value, cache_ttl_in_seconds)
           /\ call' = [call EXCEPT ![c].pc = "Done",
                                    ![c].outcome = call[c].returned,
                                    ![c].writes = Append(@, [name |-> call[c].cache_key,
                                                             value |-> value,
                                                             ex |-> cache_ttl_in_seconds])]
    /\ UNCHANGED <<app, cache, handlerVars, toolVars>>

\* Redis drops an entry whose time to live has passed
Expire(name) ==
    /\ Holds(redis, name)
    /\ redis' = {e \in redis : e.name # name}
    /\ UNCHANGED <<app, cache, call, handlerVars, toolVars>>

\* the invocations of the callers draw their requests from PipelineRequests
Next ==
    \E i \in Invocations :
        \/ \E r \in PipelineRequests : Receive(i, r)
        \/ ValidateCode(i)
        \/ CheckImports(i)
        \/ Compile(i)
        \/ BuildNamespace(i)
        \/ ExecuteDefinitions(i)
        \/ ResolveTarget(i)
        \/ WorkerStart(i)
        \/ WorkerRun(i)
        \/ Deliver(i)
        \/ Timeout(i)

Spec == Init /\ [][Next]_vars

\* the request threads resolve the handler dependency
HandlerNext ==
    \E t \in Threads :
        \/ get_llm_answer_handler(t)
        \/ LLMAnswerHandler_llm(t)
        \/ LLMAnswerHandler_agent(t)
        \/ get_answer_service(t)

HandlerSpec == Init /\ [][HandlerNext]_vars

\* an application starts and serves calls of AnswerService.get_answer
ServiceNext ==
    \/ \E a \in Apps : lifespan(a)
    \/ \E c \in Calls :
          \/ \E a \in CallArguments : wrapper(c, a)
          \/ get_object(c)
          \/ \E r \in HandlerResults : get_answer(c, r)
          \/ set_object(c)
    \/ \E name \in CacheKeys : Expire(name)

ServiceSpec == Init /\ [][ServiceNext]_vars

\* the event loop runs a ready coroutine, the executor runs a submitted job
\* on a free thread, and the deadline of wait_for passes
Fairness ==
    \A i \in Invocations :
        /\ WF_vars(ValidateCode(i))
        /\ WF_vars(CheckImports(i))
        /\ WF_vars(Compile(i))
        /\ WF_vars(BuildNamespace(i))
        /\ WF_vars(ExecuteDefinitions(i))
        /\ WF_vars(ResolveTarget(i))
        /\ WF_vars(WorkerStart(i))
        /\ WF_vars(WorkerRun(i))
        /\ WF_vars(Deliver(i))
        /\ WF_vars(Timeout(i))

FairSpec == Init /\ [][Next]_vars /\ Fairness

\* the invocations draw their requests from NamespaceRequests
NsNext ==
    \E i \in Invocations :
        \/ \E r \in NamespaceRequests : Receive(i, r)
        \/ ValidateCode(i)
        \/ CheckImports(i)
        \/ Compile(i)
        \/ BuildNamespace(i)
        \/ ExecuteDefinitions(i)
        \/ ResolveTarget(i)
        \/ WorkerStart(i)
        \/ WorkerRun(i)
        \/ Deliver(i)
        \/ Timeout(i)

NsSpec == Init /\ [][NsNext]_vars

\* the invocations draw their requests from AttrRequests
AttrNext ==
    \E i \in Invocations :
        \/ \E r \in AttrRequests : Receive(i, r)
        \/ ValidateCode(i)
        \/ CheckImports(i)
        \/ Compile(i)
        \/ BuildNamespace(i)
        \/ ExecuteDefinitions(i)
        \/ ResolveTarget(i)
        \/ WorkerStart(i)
        \/ WorkerRun(i)
        \/ Deliver(i)
        \/ Timeout(i)

AttrSpec == Init /\ [][AttrNext]_vars

\* the invocations draw their requests from LoopRequests
LoopNext ==
    \E i \in Invocations :
        \/ \E r \in LoopRequests : Receive(i, r)
        \/ ValidateCode(i)
        \/ CheckImports(i)
        \/ Compile(i)
        \/ BuildNamespace(i)
        \/ ExecuteDefinitions(i)
        \/ ResolveTarget(i)
        \/ WorkerStart(i)
        \/ WorkerRun(i)
        \/ Deliver(i)
        \/ Timeout(i)

LoopSpec == Init /\ [][LoopNext]_vars

\* the invocations draw their requests from NestRequests
NestNext ==
    \E i \in Invocations :
        \/ \E r \in NestRequests : Receive(i, r)
        \/ ValidateCode(i)
        \/ CheckImports(i)
        \/ Compile(i)
        \/ BuildNamespace(i)
        \/ ExecuteDefinitions(i)
        \/ ResolveTarget(i)
        \/ WorkerStart(i)
        \/ WorkerRun(i)
        \/ Deliver(i)
        \/ Timeout(i)

NestSpec == Init /\ [][NestNext]_vars

\* the invocations draw their requests from RecRequests
RecNext ==
    \E i \in Invocations :
        \/ \E r \in RecRequests : Receive(i, r)
        \/ ValidateCode(i)
        \/ CheckImports(i)
        \/ Compile(i)
        \/ BuildNamespace(i)
        \/ ExecuteDefinitions(i)
        \/ ResolveTarget(i)
        \/ WorkerStart(i)
        \/ WorkerRun(i)
        \/ Deliver(i)
        \/ Timeout(i)

RecSpec == Init /\ [][RecNext]_vars

\* the invocations draw their requests from ImportRequests
ImportNext ==
    \E i \in Invocations :
        \/ \E r \in ImportRequests : Receive(i, r)
        \/ ValidateCode(i)
        \/ CheckImports(i)
        \/ Compile(i)
        \/ BuildNamespace(i)
        \/ ExecuteDefinitions(i)
        \/ ResolveTarget(i)
        \/ WorkerStart(i)
        \/ WorkerRun(i)
        \/ Deliver(i)
        \/ Timeout(i)

ImportSpec == Init /\ [][ImportNext]_vars

\* the invocations draw their requests from GuardRequests
GuardNext ==
    \E i \in Invocations :
        \/ \E r \in GuardRequests : Receive(i, r)
        \/ ValidateCode(i)
        \/ CheckImports(i)
        \/ Compile(i)
        \/ BuildNamespace(i)
        \/ ExecuteDefinitions(i)
        \/ ResolveTarget(i)
        \/ WorkerStart(i)
        \/ WorkerRun(i)
        \/ Deliver(i)
        \/ Timeout(i)

GuardSpec == Init /\ [][GuardNext]_vars

\* the invocations draw their requests from BuiltinRequests
BuiltinNext ==
    \E i \in Invocations :
        \/ \E r \in BuiltinRequests : Receive(i, r)
        \/ ValidateCode(i)
        \/ CheckImports(i)
        \/ Compile(i)
        \/ BuildNamespace(i)
        \/ ExecuteDefinitions(i)
        \/ ResolveTarget(i)
        \/ WorkerStart(i)
        \/ WorkerRun(i)
        \/ Deliver(i)
        \/ Timeout(i)

BuiltinSpec == Init /\ [][BuiltinNext]_vars

\* the invocations draw their requests from StatementRequests
StatementNext ==
    \E i \in Invocations :
        \/ \E r \in StatementRequests : Receive(i, r)
        \/ ValidateCode(i)
        \/ CheckImports(i)
        \/ Compile(i)
        \/ BuildNamespace(i)
        \/ ExecuteDefinitions(i)
        \/ ResolveTarget(i)
        \/ WorkerStart(i)
        \/ WorkerRun(i)
        \/ Deliver(i)
        \/ Timeout(i)

StatementSpec == Init /\ [][StatementNext]_vars

(***************************************************************************)
(* Properties.                                                             *)
(***************************************************************************)
Text(i) == request[i].src.text
Failed == Returned(NoneV)

\* a source the validator and the import gate accept
Accepted(src) ==
    /\ Parse(src) = "ok"
    /\ Validate(src.tree).violation = NoViolation
    /\ ~ImportGateRejects(src.tree)

\* the candidate of invocation i was compiled, given a namespace or run
Reached(i) ==
    \/ i \in compiled
    \/ safe_globals[i] # NoAddr
    \/ LocalsAddr(i) \in DOMAIN heap
    \/ worker[i] # "none"

\* C1: no candidate is compiled or executed unless its source parsed, the
\* validator finished its traversal without a violation and the import gate
\* found no disallowed module; a source that does not parse ("syntax",
\* "deep"), that the validator rejects ("while") or that imports a disallowed
\* module ("import_os") never reaches compile or exec.
C1_NoExecWithoutValidation ==
    \A i \in Invocations :
        /\ Reached(i) => Accepted(request[i].src)
        /\ Text(i) \in {"syntax", "deep", "while", "import_os"} => ~Reached(i)

\* a rejected invocation is done, untouched by compile and exec, while
\* another invocation was compiled and run
C1_Witness ==
    \E i, j \in Invocations :
        /\ Text(i) = "import_os" /\ pc[i] = "Done" /\ ~Reached(i)
        /\ j \in compiled /\ worker[j] = "returned"

\* C2: whichever stage fails, the invocation returns None and no exception
\* leaves safe_execute_code_tool.
C2_NoExceptionPropagates ==
    \A i \in Invocations :
        pc[i] = "Done" =>
            /\ outcome[i].kind = "returned"
            /\ via[i] # "Success" => outcome[i] = Failed

\* C3: when the target, called with the arguments in their given order,
\* returns v before the deadline, the outcome is v: the outcome of a
\* successful invocation is the value its job returned, and sub(5, 3) is 2
\* whenever it does not time out.
C3_OutcomeIsReturnValue ==
    \A i \in Invocations :
        /\ via[i] = "Success" => worker[i] = "returned" /\ outcome[i] = result[i]
        /\ (pc[i] = "Done" /\ request[i].target = "sub" /\ via[i] # "Timeout")
              => outcome[i] = Returned(IntV(2))

\* sub(5, 3) returned before the deadline
C3_Witness ==
    \E i \in Invocations : request[i].target = "sub" /\ via[i] = "Success"

\* C4: executed code obtains no object outside the policy set; in particular
\* no invocation gets hold of (and returns) a host module such as os or sys.
C4_NoHostObjectReached ==
    \A i \in Invocations :
        outcome[i].val.t = "module" => outcome[i].val.s \in ALLOWED_PYTHON_MODULES

\* C5: nothing an invocation writes is observable by another invocation or
\* changes its outcome: "def f(): return math.test_var" run on its own fails
\* (None), so it gives None whatever other invocations did.
C5_NoSharedMutableState ==
    \A i \in Invocations :
        (pc[i] = "Done" /\ Text(i) = "get_attr") => outcome[i] = Failed

\* C6: names bound in the global or the builtin scope by one invocation are
\* not visible to another: the SAFE_NAMESPACE template and its builtins dict
\* never change, every invocation starts from a namespace equal to the
\* template with builtins of its own, no two invocations share a globals or a
\* builtins dict, and "def get_global(): return test_var" gives None whatever
\* other invocations bound.
C6_NamespaceNonLeakage ==
    /\ heap[TemplateAddr] = SAFE_NAMESPACE
    /\ heap[TemplateBuiltinsAddr] = SAFE_BUILTINS
    /\ \A i \in Invocations :
          /\ pc[i] = "ExecutingDefinitions" =>
                /\ heap[safe_globals[i]] =
                      [SAFE_NAMESPACE EXCEPT !["__builtins__"] = DictV("builtins", i)]
                /\ heap[BuiltinsAddr(i)] = SAFE_BUILTINS
                /\ heap[LocalsAddr(i)] = EmptyDict
          /\ safe_globals[i] # NoAddr =>
                /\ safe_globals[i] \notin {TemplateAddr} \cup {safe_globals[j] : j \in Invocations \ {i}}
                /\ AddrOf(heap[safe_globals[i]]["__builtins__"]) \notin
                      {TemplateBuiltinsAddr} \cup
                      {AddrOf(heap[safe_globals[j]]["__builtins__"]) :
                          j \in {k \in Invocations \ {i} : safe_globals[k] # NoAddr}}
          /\ (pc[i] = "Done" /\ Text(i) = "get_global") => outcome[i] = Failed

\* an invocation bound test_var in its global or builtin scope and a later
\* invocation that read test_var got None
C6_Witness ==
    \E i, j \in Invocations :
        /\ i < j
        /\ Text(i) \in {"set_global", "set_builtin", "top_global"} /\ via[i] = "Success"
        /\ Text(j) = "get_global" /\ via[j] = "RuntimeError"

\* C7: an invocation whose deadline expired returned None without waiting
\* for its job, and nothing that happens later (the abandoned job returning
\* or raising) changes the outcome of an invocation that has returned.
C7_TimeoutOutcomeIsFinal ==
    /\ [](\A i \in Invocations : via[i] = "Timeout" => pc[i] = "Done" /\ outcome[i] = Failed)
    /\ [][\A i \in Invocations :
             pc[i] = "Done" => pc'[i] = "Done" /\ outcome'[i] = outcome[i] /\ via'[i] = via[i]]_vars

\* the job of a timed-out invocation returned after its caller got None
C7_Witness ==
    \E i \in Invocations :
        via[i] = "Timeout" /\ worker[i] = "returned" /\ outcome[i] = Failed

\* C8: every invocation eventually reaches Done.
C8_EventuallyDone ==
    \A i \in Invocations : (pc[i] # "Idle") ~> (pc[i] = "Done")

\* C9: the outcome of a successful call is never the failure marker None.
C9_ValueDistinctFromFailure ==
    \A i \in Invocations : via[i] = "Success" => outcome[i] # Failed

\* C10: the symbols the candidate binds at top level are in the namespace the
\* target resolves names in: target() calling helper() gives 4 and
\* calculate_sqrt(16) using sqrt from "from math import sqrt" gives 4.0.
C10_TopLevelSymbolsResolve ==
    \A i \in Invocations :
        (pc[i] = "Done" /\ via[i] # "Timeout") =>
            /\ Text(i) = "helper" => outcome[i] = Returned(IntV(4))
            /\ Text(i) = "from_import" => outcome[i] = Returned(FloatV(4))

\* oracles over the tree, independent of the traversal of the validator
HasDeniedAttribute(tree) ==
    \E n \in Walk(tree) : n.kind = "Attribute" /\ n.name \in DANGEROUS_ATTRIBUTES
HasWhile(tree) == \E n \in Walk(tree) : n.kind = "While"
\* invocation i is past validate_code_security
Validated(i) == pc[i] \notin {"Idle", "Validating"}
Tree(i) == request[i].src.tree

FunctionLike == {"FunctionDef", "AsyncFunctionDef", "Lambda"}

IsDef(node) == node.kind \in {"FunctionDef", "AsyncFunctionDef"}
\* the children that lie inside the node; the decorators of a def lie before
\* it, in the scope that holds the def
KidsInside(node) ==
    IF IsDef(node) THEN SubSeq(node.kids, 1, Len(node.kids) - node.val) ELSE node.kids
KidsBefore(node) == IF IsDef(node) THEN DecoratorsOf(node) ELSE <<>>

Largest(S) == CHOOSE d \in S \cup {0} : \A e \in S \cup {0} : e <= d

RECURSIVE NestingDepth(_)
\* the deepest nesting of function-like definitions in the tree
NestingDepth(node) ==
    Largest({NestingDepth(KidsBefore(node)[k]) : k \in 1..Len(KidsBefore(node))}
        \cup {NestingDepth(KidsInside(node)[k]) + (IF node.kind \in FunctionLike THEN 1 ELSE 0) :
                  k \in 1..Len(KidsInside(node))}
        \cup {IF node.kind \in FunctionLike THEN 1 ELSE 0})

RECURSIVE HasSelfCall(_, _)
\* some call in the tree has as callee the bare name fn of the innermost
\* named function around it
HasSelfCall(node, fn) ==
    \/ /\ node.kind = "Call" /\ node.kids[1].kind = "Name"
       /\ fn # NoFunction /\ node.kids[1].name = fn
    \/ \E k \in 1..Len(KidsBefore(node)) : HasSelfCall(KidsBefore(node)[k], fn)
    \/ \E k \in 1..Len(KidsInside(node)) :
          HasSelfCall(KidsInside(node)[k], IF IsDef(node) THEN node.name ELSE fn)

\* no rule of the validator applies to the tree
NoRuleApplies(tree) ==
    /\ ~HasDeniedAttribute(tree)
    /\ ~HasWhile(tree)
    /\ NestingDepth(tree) <= MAX_FUNCTION_DEPTH
    /\ ~HasSelfCall(tree, NoFunction)

Comprehensions == {"ListComp", "SetComp", "DictComp", "GeneratorExp"}

\* C12: a source with a while statement at any position is rejected; for
\* loops and list, set, dict and generator comprehensions are no reason for
\* rejection: a source with no while (and to which no other rule applies)
\* is accepted.
C12_WhileRejectedForAllowed ==
    \A i \in Invocations :
        (Validated(i) /\ Parse(request[i].src) = "ok") =>
            /\ HasWhile(Tree(i)) =>
                  /\ validator[i].violation = "WhileLoopForbidden"
                  /\ pc[i] = "Done" /\ via[i] = "Rejected" /\ outcome[i] = Failed
            /\ (~HasWhile(Tree(i)) /\ NoRuleApplies(Tree(i))) =>
                  /\ validator[i].violation = NoViolation
                  /\ via[i] # "Rejected"

\* a while loop in the body of a for loop was rejected, and a source with a
\* comprehension and one with a for loop were accepted
C12_Witness ==
    \E i, j \in Invocations :
        /\ via[i] = "Rejected"
        /\ \E n \in Walk(Tree(i)) :
              n.kind = "For" /\ \E k \in 1..Len(n.kids) : n.kids[k].kind = "While"
        /\ Validated(j) /\ validator[j].violation = NoViolation
        /\ \E n \in Walk(Tree(j)) : n.kind \in Comprehensions
        /\ \E n \in Walk(Tree(j)) : n.kind = "For"

\* C13: a source in which some function-like definition (def, async def,
\* lambda, in any mix) lies inside two or more others is rejected, and a
\* source whose definitions nest at most 2 deep is not rejected by the
\* nesting rule, however many sibling definitions it has.
C13_NestingDepthRule ==
    \A i \in Invocations :
        (Validated(i) /\ Parse(request[i].src) = "ok") =>
            /\ NestingDepth(Tree(i)) > MAX_FUNCTION_DEPTH =>
                  /\ validator[i].violation = "NestingDepthExceeded"
                  /\ pc[i] = "Done" /\ via[i] = "Rejected" /\ outcome[i] = Failed
            /\ NestingDepth(Tree(i)) <= MAX_FUNCTION_DEPTH =>
                  /\ validator[i].violation = NoViolation
                  /\ via[i] # "Rejected"

\* C14: a call whose callee is the bare name of the innermost named function
\* around it is rejected, also inside a lambda, a comprehension or a branch
\* of that function and after a nested definition of it was traversed; a
\* call of another name is not rejected.
C14_DirectRecursionRule ==
    \A i \in Invocations :
        (Validated(i) /\ Parse(request[i].src) = "ok") =>
            /\ HasSelfCall(Tree(i), NoFunction) =>
                  /\ validator[i].violation = "RecursionDetected"
                  /\ pc[i] = "Done" /\ via[i] = "Rejected" /\ outcome[i] = Failed
            /\ ~HasSelfCall(Tree(i), NoFunction) =>
                  /\ validator[i].violation = NoViolation
                  /\ via[i] # "Rejected"

\* names called by bare name in the tree
CalledNames(node) ==
    {n.kids[1].name : n \in {c \in Walk(node) : c.kind = "Call" /\ c.kids[1].kind = "Name"}}
\* the functions defined at top level
TopFunctions(tree) ==
    {tree.kids[k] : k \in {j \in 1..Len(tree.kids) :
                              tree.kids[j].kind \in {"FunctionDef", "AsyncFunctionDef"}}}
RECURSIVE CallReach(_, _, _)
\* names of top-level functions reached from the names in from by n calls
CallReach(tree, from, n) ==
    IF n = 0 THEN from
    ELSE CallReach(tree,
            from \cup UNION {CalledNames(g) : g \in {h \in TopFunctions(tree) : h.name \in from}},
            n - 1)
\* two or more distinct functions call each other: some function is reached
\* again through calls of other functions
HasCallCycle(tree) ==
    \E g \in TopFunctions(tree) :
        \E h \in TopFunctions(tree) :
            /\ h.name # g.name
            /\ h.name \in CalledNames(g)
            /\ g.name \in CallReach(tree, {h.name}, Cardinality(TopFunctions(tree)))

\* C15: a source in which two or more functions call each other by name
\* and none calls its own name passes validation.
C15_MutualRecursionAccepted ==
    \A i \in Invocations :
        (/\ Validated(i) /\ Parse(request[i].src) = "ok"
         /\ HasCallCycle(Tree(i)) /\ ~HasSelfCall(Tree(i), NoFunction)) =>
            /\ validator[i].violation = NoViolation
            /\ via[i] # "Rejected"

\* the cycle f -> g -> h -> f was accepted and f was called
C15_Witness ==
    \E i \in Invocations :
        /\ HasCallCycle(Tree(i)) /\ Cardinality(TopFunctions(Tree(i))) = 3
        /\ validator[i].violation = NoViolation
        /\ worker[i] \in {"returned", "raised"}

\* the trees with an import statement of a module that is not allowed
DisallowedImportTrees ==
    {ImportTree(c[1], c[2]) :
        c \in {d \in ImportCases : d[2] \notin ALLOWED_PYTHON_MODULES}}

\* C16: when the validated tree holds, at top level or inside a function
\* that is never called, an import or from-import of a module that is not
\* one of the nine allowed (a dotted name, a relative import with no module
\* name), the outcome is None and the invocation ends before the namespace
\* is built and before the candidate is compiled or executed.
C16_ImportGateAborts ==
    /\ Cardinality(ALLOWED_PYTHON_MODULES) = 9
    /\ \A i \in Invocations :
          (Validated(i) /\ Tree(i) \in DisallowedImportTrees) =>
              /\ ~Reached(i)
              /\ pc[i] # "CheckingImports" =>
                    pc[i] = "Done" /\ via[i] = "DisallowedImport" /\ outcome[i] = Failed

\* "import os" inside a function that is never called ended at the gate,
\* and "import math" inside a function was compiled and run
C16_Witness ==
    \E i, j \in Invocations :
        /\ Tree(i) = ImportTree("uncalled", "os") /\ via[i] = "DisallowedImport"
        /\ Tree(j) = ImportTree("called", "math") /\ via[j] = "Success"

\* C17: the function bound as __import__ raises ImportError for a name that
\* is not allowed and returns the pre-bound module object for an allowed
\* one; it refuses a name exactly when the import gate refuses "import
\* name", also for a direct call that the gate does not see, and the host's
\* module loader is never reached.
C17_GuardedImport ==
    /\ heap[HostImportsAddr] = EmptyDict
    /\ \A i \in Invocations :
          \A x \in {c[2] : c \in GuardCases} :
              (/\ Tree(i) \in {ImportTree("direct", x), ImportTree("called", x)}
               /\ worker[i] \in {"returned", "raised"}) =>
                    /\ x \in ALLOWED_PYTHON_MODULES =>
                          result[i] = Returned(AVAILABLE_PYTHON_MODULES[x])
                    /\ x \notin ALLOWED_PYTHON_MODULES => result[i] = Propagated("ImportError")
                    /\ (result[i] = Propagated("ImportError")) <=>
                          ImportGateRejects(ImportTree("import", x))

\* __import__('os') passed the gate and raised ImportError in the call, and
\* __import__('random') returned the pre-bound module
C17_Witness ==
    \E i, j \in Invocations :
        /\ Tree(i) = ImportTree("direct", "os") /\ via[i] = "RuntimeError"
        /\ result[i] = Propagated("ImportError")
        /\ Tree(j) = ImportTree("direct", "random") /\ via[j] = "Success"
        /\ outcome[j] = Returned(ModuleV("random"))

\* the names the top-level statements of the tree bind
TopLevelBound(tree) ==
    {tree.kids[k].name : k \in {j \in 1..Len(tree.kids) : IsDef(tree.kids[j])}}
      \cup {tree.kids[k].kids[1].name :
                k \in {j \in 1..Len(tree.kids) :
                          /\ tree.kids[j].kind \in {"Assign", "For"}
                          /\ tree.kids[j].kids[1].kind = "Name"}}
      \cup UNION {{IF a.aux # "" THEN a.aux ELSE a.name : a \in {tree.kids[k].kids[n] : n \in 1..Len(tree.kids[k].kids)}} :
                k \in {j \in 1..Len(tree.kids) :
                          tree.kids[j].kind \in {"Import", "ImportFrom"}}}

\* C18: when target_name is not bound by the candidate's top-level code the
\* outcome is None and no job is submitted for the invocation; when it is
\* bound to something that is not callable (k = 3) the outcome is None too.
C18_TargetLookup ==
    \A i \in Invocations :
        /\ (Parse(request[i].src) = "ok" /\ request[i].target \notin TopLevelBound(Tree(i))) =>
              /\ worker[i] = "none"
              /\ pc[i] = "Done" => outcome[i] = Failed
              /\ via[i] \notin {"Success", "RuntimeError", "Timeout"}
        /\ (request[i] = Request(SrcTopVar, "k", <<>>) /\ pc[i] = "Done") => outcome[i] = Failed

\* the target "math", a name of the namespace that the candidate does not
\* bind, was not found, and the call of k = 3 raised TypeError
C18_Witness ==
    \E i, j \in Invocations :
        /\ request[i].target = "math" /\ via[i] = "NotFound"
        /\ request[j].target = "k" /\ via[j] = "RuntimeError"
        /\ result[j] = Propagated("TypeError")

\* the violation of the first statement of the case that raises one
FirstRaised(c) ==
    IF c[1].raises # NoViolation \/ Len(c) = 1 THEN c[1].raises ELSE c[2].raises

\* C19: the verdict on a source is the same whenever it is validated: the
\* violation raised is the one of the first violating statement in traversal
\* order (none when no statement violates), two invocations with the same
\* source get the same verdict, and the source is rejected exactly when a
\* violation was raised, whatever the other invocations validated.
C19_VerdictDeterministic ==
    /\ \A i \in Invocations : \A c \in StatementCases :
          (Validated(i) /\ Tree(i) = StatementTree(c)) =>
              /\ validator[i].violation = FirstRaised(c)
              /\ (pc[i] = "Done" /\ via[i] = "Rejected") <=> FirstRaised(c) # NoViolation
    /\ \A i, j \in Invocations :
          (Validated(i) /\ Validated(j) /\ request[i].src = request[j].src) =>
              validator[i].violation = validator[j].violation

\* one invocation was rejected for nesting depth, its validator left with
\* function_depth raised, and another was accepted and returned 1
C19_Witness ==
    \E i, j \in Invocations :
        /\ validator[i].violation = "NestingDepthExceeded"
        /\ validator[i].function_depth > MAX_FUNCTION_DEPTH
        /\ Validated(j) /\ validator[j].violation = NoViolation
        /\ via[j] = "Success" /\ outcome[j] = Returned(IntV(1))

\* the names a tree can bind: stored names, parameters, the names of defs
\* and classes, import aliases and the keys of subscript stores
BoundNames(tree) ==
    {n.name : n \in {x \in Walk(tree) :
                \/ x.kind \in {"Name", "Subscript"} /\ x.aux = "Store"
                \/ x.kind \in {"FunctionDef", "AsyncFunctionDef", "ClassDef", "arg"}
                \/ x.kind = "alias" /\ x.aux = ""}}
      \cup {n.aux : n \in {x \in Walk(tree) : x.kind = "alias" /\ x.aux # ""}}

\* C20: when exec starts, the invocation's builtin scope holds exactly the
\* allowed builtins and one guarded import function, and its global scope
\* holds exactly the builtin-scope entry and the nine allowed modules under
\* their names; afterwards a name of its globals, builtins or locals is one
\* of these with its first binding or a name its own source binds.
C20_NamespaceContents ==
    \A i \in Invocations :
        safe_globals[i] # NoAddr =>
            LET g == heap[safe_globals[i]]
                b == heap[AddrOf(g["__builtins__"])]
                own == BoundNames(Tree(i))
            IN  /\ pc[i] = "ExecutingDefinitions" =>
                      /\ DOMAIN b = BuiltinNames \cup {"__import__"}
                      /\ {x \in DOMAIN b : b[x] = BuiltinV("safe_import")} = {"__import__"}
                      /\ DOMAIN g = {"__builtins__"} \cup ALLOWED_PYTHON_MODULES
                      /\ Cardinality(DOMAIN g) = 10
                      /\ heap[LocalsAddr(i)] = EmptyDict
                /\ DOMAIN b \subseteq BuiltinNames \cup {"__import__"} \cup own
                /\ DOMAIN g \subseteq {"__builtins__"} \cup ALLOWED_PYTHON_MODULES \cup own
                /\ DOMAIN heap[LocalsAddr(i)] \subseteq own
                /\ \A x \in (DOMAIN b) \ own :
                      b[x] = IF x = "__import__" THEN BuiltinV("safe_import") ELSE BuiltinV(x)
                /\ \A x \in (DOMAIN g) \ (own \cup {"__builtins__"}) : g[x] = ModuleV(x)

\* an invocation bound test_var in its global or builtin scope, and another
\* invocation is about to start exec
C20_Witness ==
    \E i, j \in Invocations :
        /\ safe_globals[i] # NoAddr
        /\ "test_var" \in (DOMAIN heap[safe_globals[i]]) \cup (DOMAIN heap[BuiltinsAddr(i)])
        /\ pc[i] = "Done"
        /\ pc[j] = "ExecutingDefinitions"

\* C21: every builtin the prompt announces resolves in the sandbox: a target
\* that uses one does not end with NameError, and the announced names are
\* the names bound in the builtin scope of the invocation.
C21_AnnouncedBuiltinsResolve ==
    \A i \in Invocations : \A x \in PromptBuiltins :
        (Tree(i) = BuiltinUse(x) /\ worker[i] \in {"returned", "raised"}) =>
            /\ result[i] # Propagated("NameError")
            /\ x \in DOMAIN heap[BuiltinsAddr(i)]

RECURSIVE HasEnclosedCall(_, _, _)
\* a call by bare name of a named function around the innermost one: outer
\* holds the names of the named functions around the function fn the node
\* lies in
HasEnclosedCall(node, outer, fn) ==
    \/ /\ node.kind = "Call" /\ node.kids[1].kind = "Name"
       /\ node.kids[1].name \in outer \ {fn}
    \/ \E k \in 1..Len(KidsBefore(node)) : HasEnclosedCall(KidsBefore(node)[k], outer, fn)
    \/ \E k \in 1..Len(KidsInside(node)) :
          IF IsDef(node)
          THEN HasEnclosedCall(KidsInside(node)[k],
                               IF fn = NoFunction THEN outer ELSE outer \cup {fn}, node.name)
          ELSE HasEnclosedCall(KidsInside(node)[k], outer, fn)

\* C24: a call inside a nested named function g, defined in the body of a
\* named function f, whose callee is the bare name f is rejected as
\* recursion: the tool returns None and the candidate is not executed.
C24_EnclosingFunctionCallRejected ==
    \A i \in Invocations :
        (Validated(i) /\ Parse(request[i].src) = "ok"
           /\ HasEnclosedCall(Tree(i), {}, NoFunction)) =>
              /\ validator[i].violation = "RecursionDetected"
              /\ pc[i] = "Done" /\ via[i] = "Rejected" /\ outcome[i] = Failed

\* the invocations that returned on timeout while their job goes on running
Abandoned == {i \in Invocations : pc[i] = "Done" /\ worker[i] \in {"running", "hung"}}

\* C25: the number of jobs still running for invocations that have timed
\* out never exceeds the number of threads of the executor, however many
\* invocations time out.
C25_AbandonedWorkersBounded ==
    /\ Cardinality(Abandoned) <= PoolSize
    /\ \A i \in Abandoned : via[i] = "Timeout" /\ outcome[i] = Failed

\* every thread is held by an abandoned job that never ends, and another
\* invocation timed out before a thread took its job
C25_Witness ==
    /\ Cardinality({i \in Abandoned : worker[i] = "hung"}) = PoolSize
    /\ \E j \in Invocations : via[j] = "Timeout" /\ worker[j] = "cancelled"

\* C27: abandoned jobs do not starve later invocations: while the job of an
\* invocation waits for a thread, the threads are not all held by abandoned
\* jobs that never end, so the job is started and its value delivered.
C27_NoStarvationByAbandoned ==
    \A j \in Invocations :
        (pc[j] = "Invoking" /\ worker[j] = "queued") =>
            Cardinality({i \in Abandoned : worker[i] = "hung"}) < PoolSize

\* C26: at every node the traversal visits, function_depth is the number of
\* definitions (def, async def, lambda) around the node and lies in 0..2,
\* and current_function is the innermost named function around it; after
\* an accepted traversal both are back at 0 and None.
C26_DepthTracksLexicalNesting ==
    \A i \in Invocations :
        (Validated(i) /\ Parse(request[i].src) = "ok") =>
            /\ \A v \in Trail(Tree(i), ValidatorInit, <<0, NoFunction, 0, NoFunction>>) :
                  /\ v.function_depth = v.enclosing
                  /\ v.function_depth \in 0..MAX_FUNCTION_DEPTH
                  /\ v.current_function = v.innermost
            /\ validator[i].violation = NoViolation =>
                  /\ validator[i].function_depth = 0
                  /\ validator[i].current_function = NoFunction

\* C22: get_llm_answer_handler gives every caller the same handler: whatever
\* calls were made, first calls of concurrent request threads included, at
\* most one handler, one client and one agent have been constructed
C22_SingleHandler ==
    /\ built.handler <= 1
    /\ built.llm <= 1
    /\ built.agent <= 1
    /\ \A t, u \in Threads :
          thread[t].got # NoHandler /\ thread[u].got # NoHandler
              => thread[t].got = thread[u].got

\* the question that a call passes, and the key of a call, written out for
\* the calls of CallArguments
ExpectedQuestion(rec) ==
    IF rec.args = <<"2+2">> \/ rec.kwargs = << <<"question", "2+2">> >> THEN "2+2" ELSE "25!"

ExpectedKey(rec) ==
    IF rec.args = <<"2+2">> THEN "sf:answers:md5(2+2)"
    ELSE IF rec.kwargs = << <<"question", "2+2">> >> THEN "sf:answers:md5(question:2+2)"
    ELSE "sf:answers:md5(question:25!)"

\* the value that the bytes of an entry denote
Denoted(b) == IF b = "null" THEN NoneV ELSE IF b = "4" THEN IntV(4) ELSE StrV(b)

\* C23: without a configured cache the decorated get_answer is the
\* undecorated one: the handler is invoked exactly once with the question,
\* its result (None included) or its exception is the result of the call,
\* and the cache is neither read nor written
C23_NoCacheIsTransparent ==
    \A c \in Calls :
        call[c].pc # "Idle" /\ call[c].cache_instance = NoCache
            => /\ call[c].pc \in {"Handling", "Done"}
               /\ call[c].handled = <<[cls |-> c, question |-> ExpectedQuestion(call[c])]>>
               /\ call[c].reads = <<>>
               /\ call[c].writes = <<>>
               /\ redis = {}
               /\ call[c].pc = "Done"
                     => call[c].returned # Pending /\ call[c].outcome = call[c].returned

C23_Witness ==
    /\ app = "src.main"
    /\ \E c, d \in Calls :
          /\ call[c].pc = "Done" /\ call[c].outcome = Returned(NoneV)
          /\ call[d].pc = "Done" /\ call[d].outcome = Propagated("Exception")

\* C28: a call that reads the cache while a non-empty entry is held under
\* the key of its namespace and arguments (the same key for every service
\* instance) returns the deserialised entry, without invoking the function
\* and without writing to the cache
C28_CacheHit ==
    [][\A c \in Calls :
          /\ call'[c].pc # "Idle" => call'[c].cache_key = ExpectedKey(call'[c])
          /\ (/\ call[c].pc = "Reading"
              /\ call'[c].pc # "Reading"
              /\ \E e \in redis : e.name = ExpectedKey(call[c]) /\ e.value # "")
                 => /\ call'[c].pc = "Done"
                    /\ call'[c].handled = <<>>
                    /\ call'[c].writes = <<>>
                    /\ redis' = redis
                    /\ \E e \in redis : /\ e.name = ExpectedKey(call[c])
                                         /\ call'[c].outcome = Returned(Denoted(e.value))]_vars

C28_Witness ==
    \E c, d \in Calls :
        /\ c # d
        /\ call[d].writes # <<>>
        /\ call[c].cache_key = call[d].cache_key
        /\ call[c].pc = "Done"
        /\ Truthy(call[c].data)
        /\ call[c].handled = <<>>
        /\ call[c].outcome = Returned(IntV(4))

\* C29: a call that finds no entry under its key invokes the function
\* exactly once; a result is written under the key with the configured
\* time to live and returned, an exception propagates and nothing is written
C29_CacheMiss ==
    \A c \in Calls :
        call[c].pc = "Done" /\ call[c].cache_instance # NoCache /\ ~call[c].data.found
            => /\ Len(call[c].handled) = 1
               /\ call[c].outcome = call[c].returned
               /\ IF call[c].returned.kind = "returned"
                     THEN /\ Len(call[c].writes) = 1
                          /\ call[c].writes[1].name = ExpectedKey(call[c])
                          /\ call[c].writes[1].ex = 60
                     ELSE call[c].writes = <<>>

\* C30: a None result of a miss is stored like any other result, and a call
\* that reads the entry before it expires returns None without invoking
\* the function
C30_NoneIsCached ==
    [][\A c \in Calls :
          /\ (/\ call[c].pc = "Handling"
              /\ call[c].cache_instance # NoCache
              /\ call'[c].returned = Returned(NoneV))
                 => call'[c].pc = "Writing"
          /\ (/\ call[c].pc = "Writing"
              /\ call[c].returned = Returned(NoneV)
              /\ call'[c].pc # "Writing")
                 => /\ call'[c].pc = "Done"
                    /\ call'[c].outcome = Returned(NoneV)
                    /\ [name |-> ExpectedKey(call[c]), value |-> "null", ex |-> 60] \in redis'
          /\ (/\ call[c].pc = "Reading"
              /\ call'[c].pc # "Reading"
              /\ \E e \in redis : e.name = ExpectedKey(call[c]) /\ e.value = "null")
                 => /\ call'[c].pc = "Done"
                    /\ call'[c].outcome = Returned(NoneV)
                    /\ call'[c].handled = <<>>
                    /\ redis' = redis]_vars

C30_Witness ==
    \E c, d \in Calls :
        /\ c # d
        /\ call[d].returned = Returned(NoneV)
        /\ call[d].writes # <<>>
        /\ call[c].cache_key = call[d].cache_key
        /\ call[c].pc = "Done"
        /\ call[c].data = Data("null")
        /\ call[c].handled = <<>>
        /\ call[c].outcome = Returned(NoneV)

====
